---------------------------- MODULE Spec2Model ----------------------------
(***************************************************************************)
(* A model of the atomic-try-update crate: the compare-and-swap engine     *)
(* (src/src/lib.rs), the bit-packed FlagU64 (src/src/bits.rs), the         *)
(* ShutdownBarrier (src/src/barrier.rs), the Stack (src/src/stack.rs) and  *)
(* the WriteOrderingQueue (src/src/claim.rs).                              *)
(*                                                                         *)
(* Every data structure owns one Atom.  A thread's call is a sequence of   *)
(* atomic steps: the load of atomic_try_update, then one step per loop     *)
(* iteration (the transformation followed by compare_exchange), then what  *)
(* the caller does after the transaction (a broadcast, a recv, a rev()).   *)
(***************************************************************************)
EXTENDS Integers, Sequences, FiniteSets, Bags, TLC

(***************************************************************************)
(* u64 arithmetic.  A u64 is kept at its full width as four 16-bit limbs,  *)
(* least significant first, so that wrapping and truncation are the ones   *)
(* of the 64-bit word.                                                     *)
(***************************************************************************)
LimbBase == 2^16

U64Zero == <<0, 0, 0, 0>>

U64One == <<1, 0, 0, 0>>

\* The u64 of a small natural number (n < 2^31).
U64Of(n) == <<n % LimbBase, n \div LimbBase, 0, 0>>

\* In the operators below an argument that is used several times is bound
\* through a one-element set (x \in {a}), which makes it a value computed once.

\* a + b modulo 2^64 (u64::wrapping_add): limb by limb, with the carries.
wrapping_add(a, b) ==
    CHOOSE r \in
        {LET s1 == x[1] + y[1]
             s2 == x[2] + y[2] + (s1 \div LimbBase)
             s3 == x[3] + y[3] + (s2 \div LimbBase)
             s4 == x[4] + y[4] + (s3 \div LimbBase)
         IN  <<s1 % LimbBase, s2 % LimbBase, s3 % LimbBase, s4 % LimbBase>>
         : x \in {a}, y \in {b}} : TRUE

\* TRUE iff a + b does not fit a u64: the top limb carries out.
add_overflows(a, b) ==
    \E x \in {a}, y \in {b} :
        LET s1 == x[1] + y[1]
            s2 == x[2] + y[2] + (s1 \div LimbBase)
            s3 == x[3] + y[3] + (s2 \div LimbBase)
            s4 == x[4] + y[4] + (s3 \div LimbBase)
        IN  s4 >= LimbBase

\* a - b modulo 2^64 (u64::wrapping_sub): limb by limb, with the borrows.
wrapping_sub(a, b) ==
    CHOOSE r \in
        {LET d1 == x[1] - y[1]
             d2 == x[2] - y[2] - (IF d1 < 0 THEN 1 ELSE 0)
             d3 == x[3] - y[3] - (IF d2 < 0 THEN 1 ELSE 0)
             d4 == x[4] - y[4] - (IF d3 < 0 THEN 1 ELSE 0)
         IN  <<d1 % LimbBase, d2 % LimbBase, d3 % LimbBase, d4 % LimbBase>>
         : x \in {a}, y \in {b}} : TRUE

\* TRUE iff a < b as u64, i.e. a - b underflows: the top limb borrows.
sub_overflows(a, b) ==
    \E x \in {a}, y \in {b} :
        LET d1 == x[1] - y[1]
            d2 == x[2] - y[2] - (IF d1 < 0 THEN 1 ELSE 0)
            d3 == x[3] - y[3] - (IF d2 < 0 THEN 1 ELSE 0)
            d4 == x[4] - y[4] - (IF d3 < 0 THEN 1 ELSE 0)
        IN  d4 < 0

\* a >> 1 on a u64 (logical shift): each limb takes the low bit of the next.
shr1(a) ==
    <<(a[1] \div 2) + (a[2] % 2) * (LimbBase \div 2),
      (a[2] \div 2) + (a[3] % 2) * (LimbBase \div 2),
      (a[3] \div 2) + (a[4] % 2) * (LimbBase \div 2),
      a[4] \div 2>>

(***************************************************************************)
(* FlagU64 (src/src/bits.rs): the flag in bit 0, the value in bits 1..63.  *)
(* A FlagU64 is its raw word self.val.                                     *)
(***************************************************************************)
get_val(s) == shr1(s)

get_flag(s) == (s[1] % 2) = 1

\* A set_val that lets the top bit of val reach the flag.
set_val_carries_into_flag(s, v) ==
    <<((s[1] + (v[4] \div (LimbBase \div 2))) % 2) + ((2 * v[1]) % LimbBase),
      (v[1] \div (LimbBase \div 2)) + ((2 * v[2]) % LimbBase),
      (v[2] \div (LimbBase \div 2)) + ((2 * v[3]) % LimbBase),
      (v[3] \div (LimbBase \div 2)) + ((2 * v[4]) % LimbBase)>>

\* A set_val that writes val << 1 over the whole word.
set_val_clears_flag(s, v) ==
    <<(2 * v[1]) % LimbBase,
      (v[1] \div (LimbBase \div 2)) + ((2 * v[2]) % LimbBase),
      (v[2] \div (LimbBase \div 2)) + ((2 * v[3]) % LimbBase),
      (v[3] \div (LimbBase \div 2)) + ((2 * v[4]) % LimbBase)>>

\* self.val = (self.val & 0x1) | (val << 1), limb by limb: each limb of
\* val << 1 takes the top bit of the limb below, and the top bit of val is
\* shifted out of the word.
set_val(s, v) ==
    CHOOSE w \in
        {<<(s[1] % 2) + ((2 * x[1]) % LimbBase),
           (x[1] \div (LimbBase \div 2)) + ((2 * x[2]) % LimbBase),
           (x[2] \div (LimbBase \div 2)) + ((2 * x[3]) % LimbBase),
           (x[3] \div (LimbBase \div 2)) + ((2 * x[4]) % LimbBase)>>
         : x \in {v}} : TRUE

\* self.val = (self.val & !0x1) | u64::from(flag)
set_flag(s, flag) ==
    <<(s[1] - (s[1] % 2)) + (IF flag THEN 1 ELSE 0), s[2], s[3], s[4]>>

\* An update that stores the new value without comparing the cell with old.
store_without_compare(fr, cell, old) ==
    IF ~fr.commit
    THEN [ret |-> TRUE, cell |-> cell, old |-> old, cas |-> "none"]
    ELSE [ret |-> TRUE, cell |-> fr.new, old |-> old, cas |-> "ok"]

(***************************************************************************)
(* atomic_try_update (src/src/lib.rs): one iteration of its loop.  fr is   *)
(* what the transformation returned on the scratch copy of old:            *)
(* [commit, new, res].  Without commit the call returns with no store.     *)
(* Otherwise compare_exchange(old, new): on success new is stored and the  *)
(* call returns; on failure old becomes the value the cell holds and the   *)
(* loop runs again.                                                        *)
(***************************************************************************)
atomic_try_update(fr, cell, old) ==
    IF ~fr.commit
    THEN [ret |-> TRUE, cell |-> cell, old |-> old, cas |-> "none"]
    ELSE IF cell = old
         THEN [ret |-> TRUE, cell |-> fr.new, old |-> old, cas |-> "ok"]
         ELSE [ret |-> FALSE, cell |-> cell, old |-> cell, cas |-> "fail"]

Threads == {1, 2, 3}

(***************************************************************************)
(* The state: the barrier, the heap of nodes, the stack, the queue and the  *)
(* once-cell.                                                              *)
(***************************************************************************)
VARIABLES
    overflow_checks, \* the build: TRUE when integer overflow panics (debug)
    state,           \* ShutdownBarrier.state: the raw word of the FlagU64
    broadcast,       \* the messages sent on ShutdownBarrier.broadcast, in order
    b_pc,            \* per thread: where it is in its call
    b_op,            \* per thread: the method it is running
    b_old,           \* per thread: `old` of atomic_try_update
    b_rx,            \* per thread: its receiver's position in broadcast
    b_res,           \* per thread: the result of its last call
    b_cas,           \* per thread: how its last transaction ended
    b_term,          \* per thread: was the barrier terminal when its wait() began
    b_left,          \* calls the clients still make on the barrier
    n_spawn,         \* history: committed spawn() transactions
    n_done,          \* history: committed done() transactions
    n_leader,        \* history: done() calls that reported leader=true
    role             \* client protocol: "unborn", "live" or "finished"

bvars == <<overflow_checks, state, broadcast, b_pc, b_op, b_old, b_rx, b_res,
           b_cas, b_term, b_left, n_spawn, n_done, n_leader, role>>

VARIABLES
    mem              \* per address: [alloc, val, next]

VARIABLES
    stack_head,      \* Stack.head: the Atom's Head { head }
    s_pc,            \* per thread: "idle", "try" (in a transaction), "iter"
    s_op,            \* per thread: "push" or "pop_all"
    s_old,           \* per thread: `old` of atomic_try_update
    s_node,          \* per thread: the node its push() allocated
    s_iter,          \* per thread: NodeIterator.node of the iterator it holds
    s_rev,           \* per thread: has it called rev() on that iterator
    s_got,           \* per thread: what that iterator has yielded so far
    s_expect,        \* history, per thread: the pushes committed between the
                     \* previous pop_all commit and this thread's, in order
    s_since,         \* history: the pushes committed since the last pop_all commit
    s_pushed,        \* history: the bag of the values of all committed pushes
    s_yielded,       \* history: the bag of the values the iterators have yielded
    s_calls,         \* push() calls begun so far
    s_pops           \* pop_all() calls the clients still make

svars == <<stack_head, s_pc, s_op, s_old, s_node, s_iter, s_rev, s_got, s_expect,
           s_since, s_pushed, s_yielded, s_calls, s_pops>>

VARIABLES
    queue_head,      \* WriteOrderingQueue.head: [next, count_and_claim]
    q_pc,            \* per thread: "idle", "try", "iter" or "panic"
    q_op,            \* per thread: "push" or "consume"
    q_old,           \* per thread: `old` of atomic_try_update
    q_node,          \* per thread: the node its push() allocated
    q_iter,          \* per thread: NodeIterator.node of the iterator it holds
    q_hold,          \* history, per thread: it holds the claim, from the commit
                     \* of its push that returned true to the commit of its
                     \* consume_or_release_claim that returned false
    q_log,           \* history: the committed pushes, in order
    q_out,           \* history: the ids the iterators have yielded, in order
    q_calls,         \* push() calls begun so far
    q_left,          \* consumes that clients following no protocol still make
    q_off            \* per thread: what its last get_offset() returned

qvars == <<queue_head, q_pc, q_op, q_old, q_node, q_iter, q_hold, q_log, q_out,
           q_calls, q_left, q_off>>

VARIABLES
    once_inner,      \* OnceLockFree.inner: the word of the FlagPtr
    o_box,           \* the boxes made by Box::new, in order: [val, frees]
    o_pc,            \* per thread: "idle", "try", "ret" or "panic"
    o_op,            \* per thread: the method it is running
    o_old,           \* per thread: `old` of atomic_try_update
    o_ptr,           \* per thread: the box its setter allocated
    o_res,           \* per thread: what its call returned
    o_cas,           \* per thread: outcome of its latest compare_exchange
    o_tries,         \* per thread: compare_exchange calls made by its call
    n_prepared,      \* get_or_prepare_to_set() calls that committed
    n_installed,     \* set() and set_prepared() calls that returned Ok
    o_left,          \* calls that may still begin
    o_dropped,       \* the cell has been dropped
    o_drop           \* how the latest drop of the cell ended

ovars == <<once_inner, o_box, o_pc, o_op, o_old, o_ptr, o_res, o_cas, o_tries,
           n_prepared, n_installed, o_left, o_dropped, o_drop>>

VARIABLES
    flag_u64,        \* a FlagU64 of its own: its word
    f_val,           \* <<v>> when set_val(v) was the latest set_val, else <<>>
    f_flag,          \* <<b>> when set_flag(b) was the latest set_flag, else <<>>
    flag_u32,        \* a FlagU32 of its own: its word, two 16-bit limbs
    f_val32,         \* <<v>> when set_val(v) was the latest set_val on it
    f_flag32         \* <<b>> when set_flag(b) was the latest set_flag on it

fvars == <<flag_u64, f_val, f_flag, flag_u32, f_val32, f_flag32>>

VARIABLES
    nonce_head,      \* NonceStack.head: the Atom's NonceHead { head, nonce }
    ns_pc,           \* per thread: "idle", "try", "free" or "segv"
    ns_op,           \* per thread: "push" or "pop"
    ns_old,          \* per thread: `old` of atomic_try_update
    ns_node,         \* per thread: the node its push() allocated, or the
                     \* node its pop() took off the stack
    ns_uaf,          \* history, per thread: the latest iteration of its
                     \* pop() read the next field of a node that was freed
    ns_calls,        \* push() calls begun so far
    ns_pops          \* pop() calls the clients still make

nvars == <<nonce_head, ns_pc, ns_op, ns_old, ns_node, ns_uaf, ns_calls, ns_pops>>

(***************************************************************************)
(* ShutdownBarrier (src/src/barrier.rs).                                   *)
(***************************************************************************)
\* Calls one execution makes on the barrier.
MaxCalls == 4

\* broadcast::channel(1): a receiver that falls further behind is lagged.
ChannelCapacity == 1

BarrierOps == {"spawn", "cancel", "done", "wait"}

NoRes == [ok |-> FALSE, cancelled |-> FALSE, leader |-> FALSE]

OkRes(cancelled, leader) == [ok |-> TRUE, cancelled |-> cancelled, leader |-> leader]

\* Err(ShutdownBarrierError::AlreadyShutdown)
AlreadyShutdown == [ok |-> FALSE, cancelled |-> FALSE, leader |-> FALSE]

\* A barrier left at the all-zero atom: a count of 0.
BarrierDefaultZero == U64Zero

\* Default for ShutdownBarrier: the all-zero atom, then set_val(1).
BarrierDefault == set_val(U64Zero, U64One)

\* The barrier is terminal: the cancel flag is set or the count is 0.
Terminal == get_flag(state) \/ get_val(state) = U64Zero

\* spawn() that runs a compare_exchange to refuse.
spawn_commits_refusal(s) ==
    LET count == get_val(s)
    IN  IF get_flag(s) \/ count = U64Zero
        THEN [commit |-> TRUE, new |-> s, res |-> "AlreadyShutdown", panic |-> FALSE]
        ELSE [commit |-> TRUE, new |-> set_val(s, wrapping_add(count, U64One)),
              res |-> "Ok", panic |-> FALSE]

\* spawn() that commits without adding the new worker to the count.
spawn_without_increment(s) ==
    LET count == get_val(s)
    IN  IF get_flag(s) \/ count = U64Zero
        THEN [commit |-> FALSE, new |-> s, res |-> "AlreadyShutdown", panic |-> FALSE]
        ELSE [commit |-> TRUE, new |-> set_val(s, count), res |-> "Ok", panic |-> FALSE]

\* spawn() that checks the cancel flag only.
spawn_ignores_count(s) ==
    LET count == get_val(s)
    IN  IF get_flag(s)
        THEN [commit |-> FALSE, new |-> s, res |-> "AlreadyShutdown", panic |-> FALSE]
        ELSE [commit |-> TRUE, new |-> set_val(s, wrapping_add(count, U64One)),
              res |-> "Ok", panic |-> FALSE]

\* The transformation of spawn().  count < 2^63, so count + 1 fits a u64.
spawn_func(s) ==
    LET count == get_val(s)
    IN  IF get_flag(s) \/ count = U64Zero
        THEN [commit |-> FALSE, new |-> s, res |-> "AlreadyShutdown", panic |-> FALSE]
        ELSE [commit |-> TRUE, new |-> set_val(s, wrapping_add(count, U64One)),
              res |-> "Ok", panic |-> FALSE]

\* cancel() that checks the cancel flag only.
cancel_ignores_count(s) ==
    IF get_flag(s)
    THEN [commit |-> FALSE, new |-> s, res |-> "AlreadyShutdown", panic |-> FALSE]
    ELSE [commit |-> TRUE, new |-> set_flag(s, TRUE), res |-> "Ok", panic |-> FALSE]

\* The transformation of cancel().
cancel_func(s) ==
    LET count == get_val(s)
    IN  IF get_flag(s) \/ count = U64Zero
        THEN [commit |-> FALSE, new |-> s, res |-> "AlreadyShutdown", panic |-> FALSE]
        ELSE [commit |-> TRUE, new |-> set_flag(s, TRUE), res |-> "Ok", panic |-> FALSE]

\* done() that refuses a count of 0 before it decrements.
done_checks_count_first(s) ==
    LET count == get_val(s)
        new == set_val(s, wrapping_sub(count, U64One))
    IN  IF count = U64Zero
        THEN [commit |-> FALSE, new |-> s, res |-> "AlreadyDone", panic |-> FALSE]
        ELSE IF get_flag(new)
        THEN [commit |-> TRUE, new |-> new, res |-> "Cancelled", panic |-> FALSE]
        ELSE IF count = U64One
        THEN [commit |-> TRUE, new |-> new, res |-> "ShutdownLeader", panic |-> FALSE]
        ELSE [commit |-> TRUE, new |-> new, res |-> "Running", panic |-> FALSE]

\* done() that looks at the count before it looks at the cancel flag.
done_count_before_flag(s) ==
    LET count == get_val(s)
        new == set_val(s, wrapping_sub(count, U64One))
        panic == overflow_checks /\ sub_overflows(count, U64One)
    IN  IF count = U64One
        THEN [commit |-> TRUE, new |-> new, res |-> "ShutdownLeader", panic |-> panic]
        ELSE IF get_flag(new)
        THEN [commit |-> TRUE, new |-> new, res |-> "Cancelled", panic |-> panic]
        ELSE IF count = U64Zero
        THEN [commit |-> FALSE, new |-> new, res |-> "AlreadyDone", panic |-> panic]
        ELSE [commit |-> TRUE, new |-> new, res |-> "Running", panic |-> panic]

\* done() that never looks at the cancel flag.
done_forgets_flag(s) ==
    LET count == get_val(s)
        new == set_val(s, wrapping_sub(count, U64One))
        panic == overflow_checks /\ sub_overflows(count, U64One)
    IN  IF count = U64Zero
        THEN [commit |-> FALSE, new |-> new, res |-> "AlreadyDone", panic |-> panic]
        ELSE IF count = U64One
        THEN [commit |-> TRUE, new |-> new, res |-> "ShutdownLeader", panic |-> panic]
        ELSE [commit |-> TRUE, new |-> new, res |-> "Running", panic |-> panic]

\* The transformation of done().  count - 1 is evaluated before any check:
\* on count = 0 it panics in a build with overflow checks and wraps otherwise.
done_func(s) ==
    LET count == get_val(s)
        new == set_val(s, wrapping_sub(count, U64One))
        panic == overflow_checks /\ sub_overflows(count, U64One)
    IN  IF get_flag(new)
        THEN [commit |-> TRUE, new |-> new, res |-> "Cancelled", panic |-> panic]
        ELSE IF count = U64Zero
        THEN [commit |-> FALSE, new |-> new, res |-> "AlreadyDone", panic |-> panic]
        ELSE IF count = U64One
        THEN [commit |-> TRUE, new |-> new, res |-> "ShutdownLeader", panic |-> panic]
        ELSE [commit |-> TRUE, new |-> new, res |-> "Running", panic |-> panic]

\* wait() that commits in none of its branches.
wait_never_commits(s) ==
    LET count == get_val(s)
    IN  IF get_flag(s)
        THEN [commit |-> FALSE, new |-> s, res |-> "Cancelled", panic |-> FALSE]
        ELSE IF count = U64Zero
        THEN [commit |-> FALSE, new |-> s, res |-> "Shutdown", panic |-> FALSE]
        ELSE [commit |-> FALSE, new |-> s, res |-> "StillRunning", panic |-> FALSE]

\* The transformation of wait().
wait_func(s) ==
    LET count == get_val(s)
    IN  IF get_flag(s)
        THEN [commit |-> FALSE, new |-> s, res |-> "Cancelled", panic |-> FALSE]
        ELSE IF count = U64Zero
        THEN [commit |-> TRUE, new |-> s, res |-> "Shutdown", panic |-> FALSE]
        ELSE [commit |-> FALSE, new |-> s, res |-> "StillRunning", panic |-> FALSE]

barrier_func(o, s) ==
    CASE o = "spawn"  -> spawn_func(s)
      [] o = "cancel" -> cancel_func(s)
      [] o = "done"   -> done_func(s)
      [] o = "wait"   -> wait_func(s)

\* What each method makes of its transaction's result, and the step that
\* follows the transaction: a broadcast, a recv, or the return.
barrier_after(o, r) ==
    CASE o = "spawn" /\ r = "Ok"              -> [pc |-> "ret", res |-> OkRes(FALSE, FALSE)]
      [] o = "cancel" /\ r = "Ok"             -> [pc |-> "send", res |-> OkRes(FALSE, FALSE)]
      [] o = "done" /\ r = "Cancelled"        -> [pc |-> "ret", res |-> OkRes(TRUE, FALSE)]
      [] o = "done" /\ r = "ShutdownLeader"   -> [pc |-> "send", res |-> OkRes(FALSE, TRUE)]
      [] o = "done" /\ r = "Running"          -> [pc |-> "ret", res |-> OkRes(FALSE, FALSE)]
      [] o = "wait" /\ r = "StillRunning"     -> [pc |-> "recv", res |-> NoRes]
      [] o = "wait" /\ r = "Shutdown"         -> [pc |-> "ret", res |-> OkRes(FALSE, FALSE)]
      [] o = "wait" /\ r = "Cancelled"        -> [pc |-> "ret", res |-> OkRes(TRUE, FALSE)]
      [] OTHER                                -> [pc |-> "ret", res |-> AlreadyShutdown]

\* A new barrier, its threads idle; the clients will make n calls on it.
BarrierNew(n) ==
    /\ state = BarrierDefault
    /\ broadcast = <<>>
    /\ b_pc = [t \in Threads |-> "idle"]
    /\ b_op = [t \in Threads |-> "none"]
    /\ b_old = [t \in Threads |-> U64Zero]
    /\ b_rx = [t \in Threads |-> 0]
    /\ b_res = [t \in Threads |-> NoRes]
    /\ b_cas = [t \in Threads |-> "none"]
    /\ b_term = [t \in Threads |-> FALSE]
    /\ b_left = n
    /\ n_spawn = 0
    /\ n_done = 0
    /\ n_leader = 0
    /\ role = [t \in Threads |-> IF t = 1 THEN "live" ELSE "unborn"]

\* Thread t calls wait(): let mut rx = self.broadcast.subscribe();
BarrierSubscribe(t) ==
    /\ b_pc[t] \in {"idle", "ret"}
    /\ b_left > 0
    /\ b_left' = b_left - 1
    /\ b_op' = [b_op EXCEPT ![t] = "wait"]
    /\ b_pc' = [b_pc EXCEPT ![t] = "load"]
    /\ b_res' = [b_res EXCEPT ![t] = NoRes]
    /\ b_cas' = [b_cas EXCEPT ![t] = "none"]
    /\ b_term' = [b_term EXCEPT ![t] = Terminal]
    /\ b_rx' = [b_rx EXCEPT ![t] = Len(broadcast)]
    /\ b_old' = [b_old EXCEPT ![t] = U64Zero]
    /\ UNCHANGED <<overflow_checks, state, broadcast, n_spawn, n_done, n_leader>>
    /\ UNCHANGED <<mem, svars, qvars, ovars, fvars, nvars>>

\* wait(), after subscribing: let mut old = state.inner.load();
BarrierLoad(t) ==
    /\ b_pc[t] = "load"
    /\ b_old' = [b_old EXCEPT ![t] = state]
    /\ b_pc' = [b_pc EXCEPT ![t] = "try"]
    /\ UNCHANGED <<overflow_checks, state, broadcast, b_op, b_rx, b_res, b_cas,
                   b_term, b_left, n_spawn, n_done, n_leader, role>>
    /\ UNCHANGED <<mem, svars, qvars, ovars, fvars, nvars>>

\* Thread t calls spawn(), cancel() or done().  The first thing the call does
\* to the barrier is the load of atomic_try_update: the call begins there.
BarrierCall(t, o) ==
    /\ o \in {"spawn", "cancel", "done"}
    /\ b_pc[t] \in {"idle", "ret"}
    /\ b_left > 0
    /\ b_left' = b_left - 1
    /\ b_op' = [b_op EXCEPT ![t] = o]
    /\ b_pc' = [b_pc EXCEPT ![t] = "try"]
    /\ b_res' = [b_res EXCEPT ![t] = NoRes]
    /\ b_cas' = [b_cas EXCEPT ![t] = "none"]
    /\ b_term' = [b_term EXCEPT ![t] = FALSE]
    /\ b_old' = [b_old EXCEPT ![t] = state]
    /\ UNCHANGED <<overflow_checks, state, broadcast, b_rx, n_spawn, n_done, n_leader>>
    /\ UNCHANGED <<mem, svars, qvars, ovars, fvars, nvars>>

\* One iteration of the loop of atomic_try_update in thread t's call.  fr, u
\* and next are bound through one-element sets, which makes them values
\* computed once in the step.
BarrierTry(t) ==
    /\ b_pc[t] = "try"
    /\ \E fr \in {barrier_func(b_op[t], b_old[t])} :
       \E u \in {atomic_try_update(fr, state, b_old[t])} :
       \E next \in {barrier_after(b_op[t], fr.res)} :
           IF fr.panic
           THEN /\ b_pc' = [b_pc EXCEPT ![t] = "panic"]
                /\ UNCHANGED <<state, b_old, b_res, b_cas, n_spawn, n_done, n_leader>>
           ELSE /\ state' = u.cell
                /\ b_old' = [b_old EXCEPT ![t] = u.old]
                /\ b_cas' = [b_cas EXCEPT ![t] = u.cas]
                /\ b_pc' = [b_pc EXCEPT ![t] = IF u.ret THEN next.pc ELSE "try"]
                /\ b_res' = [b_res EXCEPT ![t] = IF u.ret THEN next.res ELSE NoRes]
                /\ n_spawn' = IF u.cas = "ok" /\ b_op[t] = "spawn"
                              THEN n_spawn + 1 ELSE n_spawn
                /\ n_done' = IF u.cas = "ok" /\ b_op[t] = "done"
                             THEN n_done + 1 ELSE n_done
                /\ n_leader' = IF u.ret /\ next.res.leader
                               THEN n_leader + 1 ELSE n_leader
    /\ UNCHANGED <<overflow_checks, broadcast, b_op, b_rx, b_term, b_left, role>>
    /\ UNCHANGED <<mem, svars, qvars, ovars, fvars, nvars>>

\* A barrier whose leader forgets the broadcast: only cancel() sends.
BarrierSendCancelOnly(t) ==
    /\ b_pc[t] = "send"
    /\ broadcast' = IF b_op[t] = "cancel" THEN Append(broadcast, TRUE) ELSE broadcast
    /\ b_pc' = [b_pc EXCEPT ![t] = "ret"]
    /\ UNCHANGED <<overflow_checks, state, b_op, b_old, b_rx, b_res, b_cas, b_term,
                   b_left, n_spawn, n_done, n_leader, role>>
    /\ UNCHANGED <<mem, svars, qvars, ovars, fvars, nvars>>

\* _ = self.broadcast.send(..): true from cancel(), false from the leader.
BarrierSend(t) ==
    /\ b_pc[t] = "send"
    /\ broadcast' = Append(broadcast, b_op[t] = "cancel")
    /\ b_pc' = [b_pc EXCEPT ![t] = "ret"]
    /\ UNCHANGED <<overflow_checks, state, b_op, b_old, b_rx, b_res, b_cas, b_term,
                   b_left, n_spawn, n_done, n_leader, role>>
    /\ UNCHANGED <<mem, svars, qvars, ovars, fvars, nvars>>

\* rx.recv().await: the next message sent after the subscription; a receiver
\* that missed a message gets RecvError::Lagged, mapped to AlreadyShutdown.
BarrierRecv(t) ==
    /\ b_pc[t] = "recv"
    /\ Len(broadcast) > b_rx[t]
    /\ b_res' = [b_res EXCEPT ![t] =
                    IF Len(broadcast) - b_rx[t] > ChannelCapacity
                    THEN AlreadyShutdown
                    ELSE OkRes(broadcast[b_rx[t] + 1], FALSE)]
    /\ b_rx' = [b_rx EXCEPT ![t] = 0]
    /\ b_pc' = [b_pc EXCEPT ![t] = "ret"]
    /\ UNCHANGED <<overflow_checks, state, broadcast, b_op, b_old, b_cas, b_term,
                   b_left, n_spawn, n_done, n_leader, role>>
    /\ UNCHANGED <<mem, svars, qvars, ovars, fvars, nvars>>

\* The steps of thread t inside a call.
BarrierStep(t) ==
    \/ BarrierLoad(t)
    \/ BarrierTry(t)
    \/ BarrierSend(t)
    \/ BarrierRecv(t)

\* Any thread calls any method at any time.
BarrierAnyCall ==
    \E t \in Threads :
        \/ \E o \in BarrierOps : BarrierCall(t, o) /\ UNCHANGED role
        \/ BarrierSubscribe(t) /\ UNCHANGED role

BarrierNext ==
    \/ BarrierAnyCall
    \/ \E t \in Threads : BarrierStep(t)

(***************************************************************************)
(* The client protocol of the barrier: thread 1 is the initial worker; a   *)
(* live worker may spawn(), and a thread becomes a live worker once a      *)
(* spawn() was committed for it; every worker calls done() exactly once,   *)
(* after its own spawns.  Nobody calls cancel().  Threads that are not     *)
(* live workers may wait().                                                *)
(***************************************************************************)
Workers == {t \in Threads : role[t] # "unborn"}

SpawnsInFlight == {t \in Threads : b_op[t] = "spawn" /\ b_pc[t] = "try"}

ProtocolSpawn(t) ==
    /\ role[t] = "live"
    /\ 1 + n_spawn + Cardinality(SpawnsInFlight) < Cardinality(Threads)
    /\ BarrierCall(t, "spawn")
    /\ UNCHANGED role

ProtocolStart(t) ==
    /\ role[t] = "unborn"
    /\ b_pc[t] \in {"idle", "ret"}
    /\ Cardinality(Workers) < 1 + n_spawn
    /\ role' = [role EXCEPT ![t] = "live"]
    /\ UNCHANGED <<overflow_checks, state, broadcast, b_pc, b_op, b_old, b_rx, b_res,
                   b_cas, b_term, b_left, n_spawn, n_done, n_leader>>
    /\ UNCHANGED <<mem, svars, qvars, ovars, fvars, nvars>>

ProtocolDone(t) ==
    /\ role[t] = "live"
    /\ BarrierCall(t, "done")
    /\ role' = [role EXCEPT ![t] = "finished"]

ProtocolWait(t) ==
    /\ role[t] # "live"
    /\ BarrierSubscribe(t)
    /\ UNCHANGED role

ProtocolNext ==
    \E t \in Threads :
        \/ ProtocolSpawn(t)
        \/ ProtocolStart(t)
        \/ ProtocolDone(t)
        \/ ProtocolWait(t)
        \/ BarrierStep(t)

(***************************************************************************)
(* The heap of Node<T> (src/src/lib.rs).  A pointer is an address of Addr  *)
(* or Null.  Box::new takes any address that was freed, or an address that *)
(* was never used; Box::from_raw gives the address back.  Addresses never  *)
(* used are all alike, so that the allocator takes the least of them.      *)
(***************************************************************************)
\* Pushes one execution makes on a stack; the heap holds as many nodes.
MaxPushes == 3

Null == 0

Addr == 1..MaxPushes

FreshNode == [alloc |-> FALSE, used |-> FALSE, val |-> 0, next |-> Null]

FreeNode == [alloc |-> FALSE, used |-> TRUE, val |-> 0, next |-> Null]

\* The addresses Box::new may return in heap m.
can_alloc(m, a) ==
    /\ ~m[a].alloc
    /\ m[a].used \/ \A b \in Addr : b < a => m[b].used

\* Box::into_raw(Box::new(Node { val, next: std::ptr::null_mut() })) at a.
alloc_node(a, val) ==
    [mem EXCEPT ![a] = [alloc |-> TRUE, used |-> TRUE, val |-> val, next |-> Null]]

\* The values of the chain that starts at pointer p, head first.
RECURSIVE chain_vals(_, _)
chain_vals(m, p) ==
    IF p = Null THEN <<>> ELSE <<m[p].val>> \o chain_vals(m, m[p].next)

\* A rev that hands the chain back as it is.
rev_keeps_order(m, node, ret) == [mem |-> m, node |-> node]

\* The loop of NodeIterator::rev: pops the head of the chain at node and
\* links it in front of the chain at ret, until node is null.
RECURSIVE rev_loop(_, _, _)
rev_loop(m, node, ret) ==
    IF node = Null
    THEN [mem |-> m, node |-> ret]
    ELSE rev_loop([m EXCEPT ![node].next = ret], m[node].next, node)

Reverse(q) == [i \in 1..Len(q) |-> q[Len(q) + 1 - i]]

RECURSIVE SeqToBag(_)
SeqToBag(q) ==
    IF q = <<>> THEN EmptyBag ELSE SetToBag({Head(q)}) (+) SeqToBag(Tail(q))

(***************************************************************************)
(* Stack (src/src/stack.rs): one Atom holding the head pointer.            *)
(***************************************************************************)
\* pop_all() calls one execution makes on a stack.
MaxPops == 3

HeapInit == mem = [a \in Addr |-> FreshNode]

StackNew ==
    /\ stack_head = Null
    /\ s_pc = [t \in Threads |-> "idle"]
    /\ s_op = [t \in Threads |-> "none"]
    /\ s_old = [t \in Threads |-> Null]
    /\ s_node = [t \in Threads |-> Null]
    /\ s_iter = [t \in Threads |-> Null]
    /\ s_rev = [t \in Threads |-> FALSE]
    /\ s_got = [t \in Threads |-> <<>>]
    /\ s_expect = [t \in Threads |-> <<>>]
    /\ s_since = <<>>
    /\ s_pushed = EmptyBag
    /\ s_yielded = EmptyBag
    /\ s_calls = 0
    /\ s_pops = MaxPops

\* A transformation of push() that does not link the node to the old head.
stack_push_unlinked(head, node) ==
    [commit |-> TRUE, new |-> node, res |-> Null, next |-> Null]

\* The transformation of push(): (*node).next = head.head; head.head = node.
\* It writes the node, which nobody else can reach before the commit.
stack_push_func(head, node) ==
    [commit |-> TRUE, new |-> node, res |-> Null, next |-> head]

\* A transformation of pop_all() that leaves the head where it was.
stack_pop_all_keeps_head(head) ==
    [commit |-> TRUE, new |-> head, res |-> head]

\* The transformation of pop_all(): ret = head.head; head.head = null_mut().
stack_pop_all_func(head) ==
    [commit |-> TRUE, new |-> Null, res |-> head]

\* Thread t calls push(val): it allocates the node, and atomic_try_update
\* loads the head.  The value pushed is the number of the call.
StackPush(t) ==
    /\ s_pc[t] = "idle"
    /\ s_calls < MaxPushes
    /\ \E a \in Addr :
          /\ can_alloc(mem, a)
          /\ mem' = alloc_node(a, s_calls + 1)
          /\ s_node' = [s_node EXCEPT ![t] = a]
    /\ s_calls' = s_calls + 1
    /\ s_op' = [s_op EXCEPT ![t] = "push"]
    /\ s_pc' = [s_pc EXCEPT ![t] = "try"]
    /\ s_old' = [s_old EXCEPT ![t] = stack_head]
    /\ UNCHANGED <<stack_head, s_iter, s_rev, s_got, s_expect, s_since, s_pushed,
                   s_yielded, s_pops>>
    /\ UNCHANGED <<bvars, qvars, ovars, fvars, nvars>>

\* One iteration of the loop of atomic_try_update in thread t's push().
StackPushTry(t) ==
    /\ s_pc[t] = "try"
    /\ s_op[t] = "push"
    /\ \E fr \in {stack_push_func(s_old[t], s_node[t])} :
       \E u \in {atomic_try_update(fr, stack_head, s_old[t])} :
          /\ mem' = [mem EXCEPT ![s_node[t]].next = fr.next]
          /\ stack_head' = u.cell
          /\ s_old' = [s_old EXCEPT ![t] = u.old]
          /\ s_pc' = [s_pc EXCEPT ![t] = IF u.ret THEN "idle" ELSE "try"]
          /\ s_node' = [s_node EXCEPT ![t] = IF u.ret THEN Null ELSE s_node[t]]
          /\ s_since' = IF u.ret THEN Append(s_since, mem[s_node[t]].val) ELSE s_since
          /\ s_pushed' = IF u.ret
                         THEN s_pushed (+) SetToBag({mem[s_node[t]].val})
                         ELSE s_pushed
    /\ UNCHANGED <<s_op, s_iter, s_rev, s_got, s_expect, s_yielded, s_calls, s_pops>>
    /\ UNCHANGED <<bvars, qvars, ovars, fvars, nvars>>

\* Thread t calls pop_all(): atomic_try_update loads the head.
StackPopAll(t) ==
    /\ s_pc[t] = "idle"
    /\ s_pops > 0
    /\ s_pops' = s_pops - 1
    /\ s_op' = [s_op EXCEPT ![t] = "pop_all"]
    /\ s_pc' = [s_pc EXCEPT ![t] = "try"]
    /\ s_old' = [s_old EXCEPT ![t] = stack_head]
    /\ UNCHANGED <<mem, stack_head, s_node, s_iter, s_rev, s_got, s_expect, s_since,
                   s_pushed, s_yielded, s_calls>>
    /\ UNCHANGED <<bvars, qvars, ovars, fvars, nvars>>

\* One iteration of the loop of atomic_try_update in thread t's pop_all();
\* on success the call returns NodeIterator { node: ret }.
StackPopAllTry(t) ==
    /\ s_pc[t] = "try"
    /\ s_op[t] = "pop_all"
    /\ \E fr \in {stack_pop_all_func(s_old[t])} :
       \E u \in {atomic_try_update(fr, stack_head, s_old[t])} :
          /\ stack_head' = u.cell
          /\ s_old' = [s_old EXCEPT ![t] = u.old]
          /\ s_pc' = [s_pc EXCEPT ![t] = IF u.ret THEN "iter" ELSE "try"]
          /\ s_iter' = [s_iter EXCEPT ![t] = IF u.ret THEN fr.res ELSE Null]
          /\ s_expect' = [s_expect EXCEPT ![t] = IF u.ret THEN s_since ELSE <<>>]
          /\ s_since' = IF u.ret THEN <<>> ELSE s_since
    /\ s_rev' = [s_rev EXCEPT ![t] = FALSE]
    /\ s_got' = [s_got EXCEPT ![t] = <<>>]
    /\ UNCHANGED <<mem, s_op, s_node, s_pushed, s_yielded, s_calls, s_pops>>
    /\ UNCHANGED <<bvars, qvars, ovars, fvars, nvars>>

\* NodeIterator::rev on the iterator thread t holds, before its first next().
StackRev(t) ==
    /\ s_pc[t] = "iter"
    /\ ~s_rev[t]
    /\ s_got[t] = <<>>
    /\ \E r \in {rev_loop(mem, s_iter[t], Null)} :
          /\ mem' = r.mem
          /\ s_iter' = [s_iter EXCEPT ![t] = r.node]
    /\ s_rev' = [s_rev EXCEPT ![t] = TRUE]
    /\ UNCHANGED <<stack_head, s_pc, s_op, s_old, s_node, s_got, s_expect, s_since,
                   s_pushed, s_yielded, s_calls, s_pops>>
    /\ UNCHANGED <<bvars, qvars, ovars, fvars, nvars>>

\* NodeIterator::next on the iterator thread t holds: None on a null node
\* (the thread is then done with the iterator), else the node is freed and
\* its value yielded.
StackIterNext(t) ==
    /\ s_pc[t] = "iter"
    /\ IF s_iter[t] = Null
       THEN /\ s_pc' = [s_pc EXCEPT ![t] = "idle"]
            /\ s_got' = [s_got EXCEPT ![t] = <<>>]
            /\ s_expect' = [s_expect EXCEPT ![t] = <<>>]
            /\ s_rev' = [s_rev EXCEPT ![t] = FALSE]
            /\ UNCHANGED <<mem, s_iter, s_yielded>>
       ELSE /\ mem' = [mem EXCEPT ![s_iter[t]] = FreeNode]
            /\ s_iter' = [s_iter EXCEPT ![t] = mem[s_iter[t]].next]
            /\ s_got' = [s_got EXCEPT ![t] = Append(s_got[t], mem[s_iter[t]].val)]
            /\ s_yielded' = s_yielded (+) SetToBag({mem[s_iter[t]].val})
            /\ UNCHANGED <<s_pc, s_expect, s_rev>>
    /\ UNCHANGED <<stack_head, s_op, s_old, s_node, s_since, s_pushed, s_calls, s_pops>>
    /\ UNCHANGED <<bvars, qvars, ovars, fvars, nvars>>

\* The threads that use the stack.
StackThreads == {1, 2}

StackNext ==
    \E t \in StackThreads :
        \/ StackPush(t)
        \/ StackPushTry(t)
        \/ StackPopAll(t)
        \/ StackPopAllTry(t)
        \/ StackRev(t)
        \/ StackIterNext(t)

(***************************************************************************)
(* WriteOrderingQueue (src/src/claim.rs): one Atom holding                 *)
(* CountingClaimHead { next, count_and_claim }.                            *)
(***************************************************************************)
\* Pushes one execution makes on a queue.
MaxEnqueues == 2

\* Consumes one execution makes on a queue whose clients follow no protocol.
MaxConsumes == 1

U64Max == <<LimbBase - 1, LimbBase - 1, LimbBase - 1, LimbBase - 1>>

\* What Countable::get_count may return for a pushed value.
Sizes == {U64Zero, U64One, U64Of(2), U64Max}

\* Default for Atom<CountingClaimHead<T>, u128>: all-zero bytes.
QueueDefault == [next |-> Null, count_and_claim |-> U64Zero]

QueueNew ==
    /\ queue_head = QueueDefault
    /\ q_pc = [t \in Threads |-> "idle"]
    /\ q_op = [t \in Threads |-> "none"]
    /\ q_old = [t \in Threads |-> QueueDefault]
    /\ q_node = [t \in Threads |-> Null]
    /\ q_iter = [t \in Threads |-> Null]
    /\ q_hold = [t \in Threads |-> FALSE]
    /\ q_log = <<>>
    /\ q_out = <<>>
    /\ q_calls = 0
    /\ q_left = MaxConsumes
    /\ q_off = [t \in Threads |-> U64Zero]

\* The transformation of push() that leaves the claim bit as it found it.
push_without_claim(head, node, sz) ==
    CHOOSE r \in
        {[commit |-> TRUE,
          new |-> [next |-> node,
                   count_and_claim |-> set_val(head.count_and_claim, sum)],
          res |-> [off |-> old_count, claimed |-> ~get_flag(head.count_and_claim)],
          next |-> head.next,
          panic |-> overflow_checks /\ add_overflows(old_count, sz)]
         : old_count \in {get_val(head.count_and_claim)},
           sum \in {wrapping_add(get_val(head.count_and_claim), sz)}} : TRUE

\* A transformation of push() that returns the offset after the element.
push_returns_end_offset(head, node, sz) ==
    CHOOSE r \in
        {[commit |-> TRUE,
          new |-> [next |-> node,
                   count_and_claim |->
                       set_flag(set_val(head.count_and_claim, sum), TRUE)],
          res |-> [off |-> get_val(set_val(head.count_and_claim, sum)),
                   claimed |-> ~get_flag(head.count_and_claim)],
          next |-> head.next,
          panic |-> overflow_checks /\ add_overflows(old_count, sz)]
         : old_count \in {get_val(head.count_and_claim)},
           sum \in {wrapping_add(get_val(head.count_and_claim), sz)}} : TRUE

\* The transformation of push(): the node is linked in front of the chain,
\* the count grows by sz (old_count + sz panics on overflow in a build with
\* overflow checks and wraps otherwise), the claim bit is set.
push_func(head, node, sz) ==
    CHOOSE r \in
        {[commit |-> TRUE,
          new |-> [next |-> node,
                   count_and_claim |->
                       set_flag(set_val(head.count_and_claim, sum), TRUE)],
          res |-> [off |-> old_count, claimed |-> ~get_flag(head.count_and_claim)],
          next |-> head.next,
          panic |-> overflow_checks /\ add_overflows(old_count, sz)]
         : old_count \in {get_val(head.count_and_claim)},
           sum \in {wrapping_add(get_val(head.count_and_claim), sz)}} : TRUE

\* A transformation of consume_or_release_claim() that reports the claim as
\* held whatever the claim bit.
consume_assumes_claim(head) ==
    [commit |-> TRUE,
     new |-> [next |-> Null,
              count_and_claim |-> IF head.next = Null
                                  THEN set_flag(head.count_and_claim, FALSE)
                                  ELSE head.count_and_claim],
     res |-> [node |-> head.next,
              had_claim |-> TRUE,
              claimed |-> head.next # Null]]

\* A transformation of consume_or_release_claim() that leaves the chain
\* linked to the head.
consume_keeps_chain(head) ==
    [commit |-> TRUE,
     new |-> [next |-> head.next,
              count_and_claim |-> IF head.next = Null
                                  THEN set_flag(head.count_and_claim, FALSE)
                                  ELSE head.count_and_claim],
     res |-> [node |-> head.next,
              had_claim |-> get_flag(head.count_and_claim),
              claimed |-> head.next # Null]]

\* The transformation of consume_or_release_claim() that clears the claim
\* bit whether or not it detached a chain.
consume_always_releases(head) ==
    [commit |-> TRUE,
     new |-> [next |-> Null,
              count_and_claim |-> set_flag(head.count_and_claim, FALSE)],
     res |-> [node |-> head.next,
              had_claim |-> get_flag(head.count_and_claim),
              claimed |-> head.next # Null]]

\* The transformation of consume_or_release_claim(): the chain is detached;
\* on an empty chain the claim bit is cleared.
consume_func(head) ==
    [commit |-> TRUE,
     new |-> [next |-> Null,
              count_and_claim |-> IF head.next = Null
                                  THEN set_flag(head.count_and_claim, FALSE)
                                  ELSE head.count_and_claim],
     res |-> [node |-> head.next,
              had_claim |-> get_flag(head.count_and_claim),
              claimed |-> head.next # Null]]

\* Thread t calls push(val): sz = val.get_count(), the node is allocated,
\* and atomic_try_update loads the head.  val.id is the number of the call.
QueuePush(t) ==
    /\ q_pc[t] = "idle"
    /\ q_calls < MaxEnqueues
    /\ \E sz \in Sizes, a \in Addr :
          /\ can_alloc(mem, a)
          /\ mem' = alloc_node(a, [id |-> q_calls + 1, sz |-> sz])
          /\ q_node' = [q_node EXCEPT ![t] = a]
    /\ q_calls' = q_calls + 1
    /\ q_op' = [q_op EXCEPT ![t] = "push"]
    /\ q_pc' = [q_pc EXCEPT ![t] = "try"]
    /\ q_old' = [q_old EXCEPT ![t] = queue_head]
    /\ UNCHANGED <<queue_head, q_iter, q_hold, q_log, q_out, q_left>>
    /\ UNCHANGED <<bvars, svars, q_off, ovars, fvars, nvars>>

\* One iteration of the loop of atomic_try_update in thread t's push().
\* (*node).next is written before the addition that may panic.
QueuePushTry(t) ==
    /\ q_pc[t] = "try"
    /\ q_op[t] = "push"
    /\ \E val \in {mem[q_node[t]].val} :
       \E fr \in {push_func(q_old[t], q_node[t], val.sz)} :
       \E u \in {atomic_try_update(fr, queue_head, q_old[t])} :
          /\ mem' = [mem EXCEPT ![q_node[t]].next = fr.next]
          /\ IF fr.panic
             THEN /\ q_pc' = [q_pc EXCEPT ![t] = "panic"]
                  /\ UNCHANGED <<queue_head, q_old, q_node, q_hold, q_log>>
             ELSE /\ queue_head' = u.cell
                  /\ q_old' = [q_old EXCEPT ![t] = u.old]
                  /\ q_pc' = [q_pc EXCEPT ![t] = IF u.ret THEN "idle" ELSE "try"]
                  /\ q_node' = [q_node EXCEPT ![t] = IF u.ret THEN Null ELSE q_node[t]]
                  /\ q_hold' = [q_hold EXCEPT
                                  ![t] = q_hold[t] \/ (u.ret /\ fr.res.claimed)]
                  /\ q_log' = IF u.ret
                              THEN Append(q_log, [id |-> val.id, sz |-> val.sz, by |-> t,
                                                  off |-> fr.res.off,
                                                  claimed |-> fr.res.claimed])
                              ELSE q_log
    /\ UNCHANGED <<q_op, q_iter, q_out, q_calls, q_left>>
    /\ UNCHANGED <<bvars, svars, q_off, ovars, fvars, nvars>>

\* Thread t calls consume_or_release_claim(): atomic_try_update loads the head.
QueueConsume(t) ==
    /\ q_pc[t] = "idle"
    /\ q_op' = [q_op EXCEPT ![t] = "consume"]
    /\ q_pc' = [q_pc EXCEPT ![t] = "try"]
    /\ q_old' = [q_old EXCEPT ![t] = queue_head]
    /\ UNCHANGED <<mem, queue_head, q_node, q_iter, q_hold, q_log, q_out, q_calls>>
    /\ UNCHANGED <<bvars, svars, q_off, ovars, fvars, nvars>>

\* One iteration of the loop of atomic_try_update in thread t's
\* consume_or_release_claim().  After the commit assert!(had_claim) panics
\* or the call returns (NodeIterator::new(node).rev(), claimed).
QueueConsumeTry(t) ==
    /\ q_pc[t] = "try"
    /\ q_op[t] = "consume"
    /\ \E fr \in {consume_func(q_old[t])} :
       \E u \in {atomic_try_update(fr, queue_head, q_old[t])} :
       \E r \in {rev_loop(mem, fr.res.node, Null)} :
          /\ queue_head' = u.cell
          /\ q_old' = [q_old EXCEPT ![t] = u.old]
          /\ IF ~u.ret
             THEN UNCHANGED <<mem, q_pc, q_iter, q_hold>>
             ELSE /\ q_hold' = [q_hold EXCEPT ![t] = q_hold[t] /\ fr.res.claimed]
                  /\ IF ~fr.res.had_claim
                     THEN /\ q_pc' = [q_pc EXCEPT ![t] = "panic"]
                          /\ UNCHANGED <<mem, q_iter>>
                     ELSE /\ mem' = r.mem
                          /\ q_iter' = [q_iter EXCEPT ![t] = r.node]
                          /\ q_pc' = [q_pc EXCEPT
                                        ![t] = IF fr.res.claimed THEN "iter" ELSE "idle"]
    /\ UNCHANGED <<q_op, q_node, q_log, q_out, q_calls, q_left>>
    /\ UNCHANGED <<bvars, svars, q_off, ovars, fvars, nvars>>

\* NodeIterator::next on the iterator thread t got from the queue.
QueueIterNext(t) ==
    /\ q_pc[t] = "iter"
    /\ IF q_iter[t] = Null
       THEN /\ q_pc' = [q_pc EXCEPT ![t] = "idle"]
            /\ UNCHANGED <<mem, q_iter, q_out>>
       ELSE /\ mem' = [mem EXCEPT ![q_iter[t]] = FreeNode]
            /\ q_iter' = [q_iter EXCEPT ![t] = mem[q_iter[t]].next]
            /\ q_out' = Append(q_out, mem[q_iter[t]].val.id)
            /\ UNCHANGED q_pc
    /\ UNCHANGED <<queue_head, q_op, q_old, q_node, q_hold, q_log, q_calls, q_left>>
    /\ UNCHANGED <<bvars, svars, q_off, ovars, fvars, nvars>>

\* The transformation of get_offset(): (false, head.count_and_claim.get_val()).
get_offset_func(head) ==
    [commit |-> FALSE, new |-> head, res |-> get_val(head.count_and_claim)]

\* Thread t calls get_offset(): atomic_try_update loads the head, runs the
\* transformation once and returns its result without a compare_exchange.
QueueGetOffset(t) ==
    /\ q_pc[t] = "idle"
    /\ \E fr \in {get_offset_func(queue_head)} :
       \E u \in {atomic_try_update(fr, queue_head, queue_head)} :
          /\ queue_head' = u.cell
          /\ q_off' = [q_off EXCEPT ![t] = fr.res]
    /\ UNCHANGED <<mem, q_pc, q_op, q_old, q_node, q_iter, q_hold, q_log, q_out,
                   q_calls, q_left>>
    /\ UNCHANGED <<bvars, svars, ovars, fvars, nvars>>

\* The threads that use the queue.
QueueThreads == {1, 2}

\* The steps of thread t inside a call, or on the iterator it holds.
QueueStep(t) ==
    \/ QueuePushTry(t)
    \/ QueueConsumeTry(t)
    \/ QueueIterNext(t)

\* Clients that follow no protocol: any idle thread calls either method.
QueueNext ==
    \E t \in QueueThreads :
        \/ QueuePush(t)
        \/ /\ q_left > 0
           /\ QueueConsume(t)
           /\ q_left' = q_left - 1
        \/ QueueStep(t)

\* The client protocol (counting_worker of src/tests/claim.rs): a thread
\* whose push returned true calls consume_or_release_claim, drains the
\* iterator, and calls again until it returns false; nobody else calls it.
ClientPush(t) ==
    /\ ~q_hold[t]
    /\ QueuePush(t)

ClientConsume(t) ==
    /\ q_hold[t]
    /\ QueueConsume(t)
    /\ UNCHANGED q_left

ClientNext ==
    \E t \in QueueThreads :
        \/ ClientPush(t)
        \/ ClientConsume(t)
        \/ QueueStep(t)

\* The thread that reads the offset (the main thread of the test), at any
\* time; get_offset() is one atomic load, so that a read by another thread
\* between two of its calls is no different.
QueueObserver == 3

\* The clients that follow no protocol, and the observer.
ObservedNext ==
    \/ QueueNext
    \/ QueueGetOffset(QueueObserver) /\ UNCHANGED q_left

\* The clients that follow the protocol, and the observer.
ObservedClientNext ==
    \/ ClientNext
    \/ QueueGetOffset(QueueObserver) /\ UNCHANGED q_left

(***************************************************************************)
(* OnceLockFree (src/src/once.rs).  The cell is the word of a FlagPtr: the *)
(* address of an 8-byte aligned box, with the lifecycle in its three low   *)
(* bits.  The k-th box made by Box::new is at address 8 * k.               *)
(***************************************************************************)
\* Calls one execution makes on the cell.
MaxOnceCalls == 3

\* enum Lifecycle
NotSet == 0
Setting == 1
Set == 2
Dead == 3

\* FlagPtr::MASK = 0b111
MASK == 7

\* #[repr(align(8))] of Align8
Align8 == 8

\* (self.val & !Self::MASK) as *mut T
get_ptr(val) == val - (val % (MASK + 1))

\* self.val & Self::MASK
FlagPtr_get_flag(val) == val % (MASK + 1)

\* self.val = (ptr & !Self::MASK) | (self.val & Self::MASK)
set_ptr(val, ptr) == (ptr - (ptr % (MASK + 1))) + (val % (MASK + 1))

\* self.val = (self.val & !Self::MASK) | (flag & Self::MASK)
FlagPtr_set_flag(val, flag) == (val - (val % (MASK + 1))) + (flag % (MASK + 1))

\* s.flag_ptr.get_flag().try_into(): Ok for the four values of Lifecycle.
try_into(flag) == [ok |-> flag \in {NotSet, Setting, Set, Dead}, val |-> flag]

\* The values the clients store.
OnceValues == {1, 2}

OnceSetters == {"set", "set_prepared"}

OnceGetters == {"get_or_prepare_to_set", "get_or_seal", "get", "get_poll"}

OnceOps == OnceSetters \cup OnceGetters

\* Results.  Ok(None) and None are OkNone; Ok(Some(ptr)), Some(ptr) and
\* Ok(&(*ptr).inner) are OkSome(ptr); Ok(()) inside a setter's transaction is
\* OkNone.
OkNone == [ok |-> TRUE, err |-> "none", ptr |-> 0]

OkSome(ptr) == [ok |-> TRUE, err |-> "none", ptr |-> ptr]

Err(e) == [ok |-> FALSE, err |-> e, ptr |-> 0]

NoOnceRes == [ok |-> FALSE, err |-> "running", ptr |-> 0]

\* What a transformation returns: (commit, result), the new value of the
\* scratch copy, and whether it panicked ("torn read?").
OnceFr(commit, new, res) == [commit |-> commit, new |-> new, res |-> res, panic |-> FALSE]

TornRead(s) == [commit |-> FALSE, new |-> s, res |-> NoOnceRes, panic |-> TRUE]

\* if ptr.is_null() { None } else { Some(ptr) }
ptr_or_none(s) == IF get_ptr(s) = 0 THEN OkNone ELSE OkSome(get_ptr(s))

\* A get_or_prepare_to_set() that reports an unset cell without claiming it.
prepare_without_commit(s) ==
    IF FlagPtr_get_flag(s) = NotSet
    THEN OnceFr(FALSE, s, OkNone)
    ELSE IF FlagPtr_get_flag(s) = Setting
         THEN OnceFr(FALSE, s, Err("AttemptToSetConcurrently"))
         ELSE OnceFr(FALSE, s, ptr_or_none(s))

\* The closure of get_or_prepare_to_set.
get_or_prepare_to_set_func(s) ==
    LET f == try_into(FlagPtr_get_flag(s))
    IN  IF ~f.ok THEN TornRead(s)
        ELSE CASE f.val = NotSet -> OnceFr(TRUE, FlagPtr_set_flag(s, Setting), OkNone)
               [] f.val = Setting -> OnceFr(FALSE, s, Err("AttemptToSetConcurrently"))
               [] f.val = Set -> OnceFr(FALSE, s, ptr_or_none(s))
               [] f.val = Dead -> OnceFr(FALSE, s, Err("UseAfterFreeBug"))

\* A get_poll() that seals an unset cell, as get_or_seal() does.
get_poll_seals(s) ==
    IF FlagPtr_get_flag(s) = NotSet
    THEN OnceFr(TRUE, set_ptr(FlagPtr_set_flag(s, Set), 0), OkNone)
    ELSE IF FlagPtr_get_flag(s) = Set
         THEN OnceFr(FALSE, s, ptr_or_none(s))
         ELSE OnceFr(FALSE, s, OkNone)

\* The closure of get_poll.
get_poll_func(s) ==
    LET f == try_into(FlagPtr_get_flag(s))
    IN  IF f.ok /\ f.val = Set
        THEN OnceFr(FALSE, s, ptr_or_none(s))
        ELSE OnceFr(FALSE, s, OkNone)

\* A get_or_seal() that reports an unset cell without sealing it.
seal_without_commit(s) ==
    IF FlagPtr_get_flag(s) = NotSet
    THEN OnceFr(FALSE, s, OkNone)
    ELSE IF FlagPtr_get_flag(s) = Setting
         THEN OnceFr(FALSE, s, Err("AttemptToSetConcurrently"))
         ELSE OnceFr(FALSE, s, ptr_or_none(s))

\* A get_or_seal() that takes the value out of a cell that is set.
seal_erases_value(s) ==
    IF FlagPtr_get_flag(s) = NotSet
    THEN OnceFr(TRUE, set_ptr(FlagPtr_set_flag(s, Set), 0), OkNone)
    ELSE IF FlagPtr_get_flag(s) = Setting
         THEN OnceFr(FALSE, s, Err("AttemptToSetConcurrently"))
         ELSE OnceFr(TRUE, set_ptr(s, 0), ptr_or_none(s))

\* The closure of get_or_seal.
get_or_seal_func(s) ==
    LET f == try_into(FlagPtr_get_flag(s))
    IN  IF ~f.ok THEN TornRead(s)
        ELSE CASE f.val = NotSet ->
                    OnceFr(TRUE, set_ptr(FlagPtr_set_flag(s, Set), 0), OkNone)
               [] f.val = Setting -> OnceFr(FALSE, s, Err("AttemptToSetConcurrently"))
               [] f.val = Set -> OnceFr(FALSE, s, ptr_or_none(s))
               [] f.val = Dead -> OnceFr(FALSE, s, Err("UseAfterFreeBug"))

\* A set_prepared() that replaces a value already stored.
set_prepared_overwrites(ptr, s) ==
    IF FlagPtr_get_flag(s) \in {Setting, Set}
    THEN OnceFr(TRUE, set_ptr(FlagPtr_set_flag(s, Set), ptr), OkNone)
    ELSE OnceFr(FALSE, s, Err("UnpreparedForSet"))

\* The closure of set_prepared, ptr being the box of the value.
set_prepared_func(ptr, s) ==
    LET f == try_into(FlagPtr_get_flag(s))
    IN  IF ~f.ok THEN TornRead(s)
        ELSE CASE f.val = NotSet -> OnceFr(FALSE, s, Err("UnpreparedForSet"))
               [] f.val = Setting ->
                    OnceFr(TRUE, set_ptr(FlagPtr_set_flag(s, Set), ptr), OkNone)
               [] f.val = Set -> OnceFr(FALSE, s, Err("AlreadySet"))
               [] f.val = Dead -> OnceFr(FALSE, s, Err("UseAfterFreeBug"))

\* A set() that reports a prepared cell as already set.
set_prepared_is_set(ptr, s) ==
    IF FlagPtr_get_flag(s) = NotSet
    THEN OnceFr(TRUE, set_ptr(FlagPtr_set_flag(s, Set), ptr), OkNone)
    ELSE OnceFr(FALSE, s, Err("AlreadySet"))

\* A set() that replaces a value already stored.
set_overwrites(ptr, s) ==
    IF FlagPtr_get_flag(s) \in {NotSet, Set}
    THEN OnceFr(TRUE, set_ptr(FlagPtr_set_flag(s, Set), ptr), OkNone)
    ELSE OnceFr(FALSE, s, Err("AttemptToSetConcurrently"))

\* The closure of set, ptr being the box of the value.
set_func(ptr, s) ==
    LET f == try_into(FlagPtr_get_flag(s))
    IN  IF ~f.ok THEN TornRead(s)
        ELSE CASE f.val = NotSet ->
                    OnceFr(TRUE, set_ptr(FlagPtr_set_flag(s, Set), ptr), OkNone)
               [] f.val = Setting -> OnceFr(FALSE, s, Err("AttemptToSetConcurrently"))
               [] f.val = Set -> OnceFr(FALSE, s, Err("AlreadySet"))
               [] f.val = Dead -> OnceFr(FALSE, s, Err("UseAfterFreeBug"))

\* A closure of drop that hands out the box again when the cell is Dead.
drop_frees_again(s) ==
    LET f == try_into(FlagPtr_get_flag(s))
    IN  IF ~f.ok THEN OnceFr(TRUE, s, OkNone)
        ELSE CASE f.val \in {NotSet, Setting} ->
                    OnceFr(TRUE, FlagPtr_set_flag(s, Dead), OkNone)
               [] f.val \in {Set, Dead} ->
                    OnceFr(TRUE, FlagPtr_set_flag(s, Dead), ptr_or_none(s))

\* The closure of drop.  A tag that is no Lifecycle commits the unchanged
\* word.
drop_func(s) ==
    LET f == try_into(FlagPtr_get_flag(s))
    IN  IF ~f.ok THEN OnceFr(TRUE, s, OkNone)
        ELSE CASE f.val \in {NotSet, Setting} ->
                    OnceFr(TRUE, FlagPtr_set_flag(s, Dead), OkNone)
               [] f.val = Set ->
                    OnceFr(TRUE, FlagPtr_set_flag(s, Dead), ptr_or_none(s))
               [] f.val = Dead -> OnceFr(FALSE, s, Err("UseAfterFreeBug"))

\* The transformation of method o; get() is get_or_seal().
once_func(o, ptr, s) ==
    CASE o = "set" -> set_func(ptr, s)
      [] o = "set_prepared" -> set_prepared_func(ptr, s)
      [] o = "get_or_prepare_to_set" -> get_or_prepare_to_set_func(s)
      [] o \in {"get_or_seal", "get"} -> get_or_seal_func(s)
      [] o = "get_poll" -> get_poll_func(s)

\* A get() that hands the None of a sealed cell to its caller.
get_passes_none(o, ptr, r) ==
    IF ~r.ok
    THEN [panic |-> r.err = "UseAfterFreeBug", res |-> r]
    ELSE [panic |-> FALSE,
          res |-> CASE o \in OnceSetters -> OkSome(ptr)
                    [] OTHER -> r]

\* What method o does with the result r of its transaction: [panic, res].
\* panic_on_memory_bug panics on UseAfterFreeBug; a setter returns the
\* reference to its own box; get() turns None into AttemptToReadWhenUnset.
once_after(o, ptr, r) ==
    IF ~r.ok
    THEN [panic |-> r.err = "UseAfterFreeBug", res |-> r]
    ELSE [panic |-> FALSE,
          res |-> CASE o \in OnceSetters -> OkSome(ptr)
                    [] o = "get" ->
                        IF r.ptr = 0 THEN Err("AttemptToReadWhenUnset") ELSE r
                    [] OTHER -> r]

\* OnceLockFree::new(): the default FlagPtr is the word 0.
OnceNew ==
    /\ once_inner = 0
    /\ o_box = <<>>
    /\ o_pc = [t \in Threads |-> "idle"]
    /\ o_op = [t \in Threads |-> "none"]
    /\ o_old = [t \in Threads |-> 0]
    /\ o_ptr = [t \in Threads |-> 0]
    /\ o_res = [t \in Threads |-> NoOnceRes]
    /\ o_cas = [t \in Threads |-> "none"]
    /\ o_tries = [t \in Threads |-> 0]
    /\ n_prepared = 0
    /\ n_installed = 0
    /\ o_left = MaxOnceCalls
    /\ o_dropped = FALSE
    /\ o_drop = "none"

\* The entry of method o in thread t, a setter with value v: the setter
\* boxes the value, and atomic_try_update loads the cell.
OnceEnter(t, o, v) ==
    /\ o_pc[t] \in {"idle", "ret"}
    /\ o_left > 0
    /\ o_left' = o_left - 1
    /\ o_op' = [o_op EXCEPT ![t] = o]
    /\ o_pc' = [o_pc EXCEPT ![t] = "try"]
    /\ o_res' = [o_res EXCEPT ![t] = NoOnceRes]
    /\ o_cas' = [o_cas EXCEPT ![t] = "none"]
    /\ o_tries' = [o_tries EXCEPT ![t] = 0]
    /\ o_old' = [o_old EXCEPT ![t] = once_inner]
    /\ IF o \in OnceSetters
       THEN /\ o_box' = Append(o_box, [val |-> v, frees |-> 0])
            /\ o_ptr' = [o_ptr EXCEPT ![t] = Align8 * (Len(o_box) + 1)]
       ELSE /\ o_box' = o_box
            /\ o_ptr' = [o_ptr EXCEPT ![t] = 0]
    /\ UNCHANGED <<once_inner, n_prepared, n_installed, o_dropped, o_drop>>
    /\ UNCHANGED <<bvars, mem, svars, qvars, fvars, nvars>>

\* Thread t calls method o of a cell that has not been dropped.
OnceCall(t, o, v) ==
    /\ ~o_dropped
    /\ OnceEnter(t, o, v)

\* One iteration of the loop of atomic_try_update in thread t's call.
OnceTry(t) ==
    /\ o_pc[t] = "try"
    /\ \E fr \in {once_func(o_op[t], o_ptr[t], o_old[t])} :
       \E u \in {atomic_try_update(fr, once_inner, o_old[t])} :
       \E out \in {once_after(o_op[t], o_ptr[t], fr.res)} :
           IF fr.panic
           THEN /\ o_pc' = [o_pc EXCEPT ![t] = "panic"]
                /\ UNCHANGED <<once_inner, o_old, o_res, o_cas, o_tries,
                                n_prepared, n_installed>>
           ELSE /\ once_inner' = u.cell
                /\ o_old' = [o_old EXCEPT ![t] = u.old]
                /\ o_cas' = [o_cas EXCEPT ![t] = u.cas]
                /\ o_tries' = [o_tries EXCEPT ![t] =
                                  IF u.cas = "none" THEN @ ELSE @ + 1]
                /\ o_pc' = [o_pc EXCEPT ![t] =
                               IF ~u.ret THEN "try"
                               ELSE IF out.panic THEN "panic" ELSE "ret"]
                /\ o_res' = [o_res EXCEPT ![t] =
                                IF u.ret /\ ~out.panic THEN out.res ELSE NoOnceRes]
                /\ n_prepared' = IF u.cas = "ok" /\ o_op[t] = "get_or_prepare_to_set"
                                  THEN n_prepared + 1 ELSE n_prepared
                /\ n_installed' = IF u.ret /\ out.res.ok /\ o_op[t] \in OnceSetters
                                   THEN n_installed + 1 ELSE n_installed
    /\ UNCHANGED <<o_box, o_op, o_ptr, o_left, o_dropped, o_drop>>
    /\ UNCHANGED <<bvars, mem, svars, qvars, fvars, nvars>>

\* The body of drop: the transaction runs alone (drop takes &mut self);
\* .map_err(panic_on_memory_bug).unwrap() panics on UseAfterFreeBug, and
\* otherwise the box the transaction returned is freed by Box::from_raw.
DropRuns ==
    /\ \A t \in Threads : o_pc[t] # "try"
    /\ \E fr \in {drop_func(once_inner)} :
       \E u \in {atomic_try_update(fr, once_inner, once_inner)} :
       \E out \in {once_after("drop", 0, fr.res)} :
           /\ once_inner' = u.cell
           /\ o_drop' = IF out.panic THEN "panic" ELSE "ok"
           /\ o_box' = IF ~out.panic /\ fr.res.ok /\ fr.res.ptr # 0
                       THEN [o_box EXCEPT ![fr.res.ptr \div Align8].frees = @ + 1]
                       ELSE o_box
    /\ o_dropped' = TRUE
    /\ UNCHANGED <<o_pc, o_op, o_old, o_ptr, o_res, o_cas, o_tries,
                   n_prepared, n_installed, o_left>>
    /\ UNCHANGED <<bvars, mem, svars, qvars, fvars, nvars>>

\* The cell is dropped: nobody is in a call, and nobody calls it again.
OnceDrop ==
    /\ ~o_dropped
    /\ DropRuns

\* A caller that breaks the contract of drop (ManuallyDrop::drop or
\* ptr::drop_in_place a second time) runs drop on the dropped cell.
OnceDropAgain ==
    /\ o_dropped
    /\ o_drop = "ok"
    /\ DropRuns

\* A caller that kept a raw pointer to the cell calls method o on the
\* dropped cell.  These calls are made one at a time: on a Dead tag no
\* closure commits, so that they interleave without effect on each other.
OnceUseAfterFree(t, o, v) ==
    /\ o_dropped
    /\ \A u \in Threads : o_pc[u] # "try"
    /\ OnceEnter(t, o, v)

\* Any thread calls any method at any time, until the cell is dropped.
OnceNext ==
    \/ \E t \in Threads : \E o \in OnceSetters : \E v \in OnceValues : OnceCall(t, o, v)
    \/ \E t \in Threads : \E o \in OnceGetters : OnceCall(t, o, 0)
    \/ \E t \in Threads : OnceTry(t)
    \/ OnceDrop

\* The cell and the callers that reach it after its drop.
OnceMisuseNext ==
    \/ OnceNext
    \/ OnceDropAgain
    \/ \E t \in Threads : \E o \in OnceSetters : \E v \in OnceValues :
          OnceUseAfterFree(t, o, v)
    \/ \E t \in Threads : \E o \in OnceGetters : OnceUseAfterFree(t, o, 0)

(***************************************************************************)
(* FlagU64 on its own (src/src/bits.rs, src/tests/bits.rs): a word that    *)
(* starts as the default and takes set_val and set_flag in any order.      *)
(***************************************************************************)
\* 2^k as a u64, k < 64.
Pow2(k) == [i \in 1..4 |-> IF i = (k \div 16) + 1 THEN 2^(k % 16) ELSE 0]

\* 2^k - 1 as a u64, k <= 64.
Pow2Minus1(k) ==
    [i \in 1..4 |-> IF i < (k \div 16) + 1 THEN LimbBase - 1
                    ELSE IF i = (k \div 16) + 1 THEN 2^(k % 16) - 1
                    ELSE 0]

\* The values passed to set_val: every power of two and every run of low
\* ones, 2^63 and u64::MAX included.
BitVals == {Pow2(k) : k \in 0..63} \cup {Pow2Minus1(k) : k \in 0..64}

\* val < 2^63: the value fits the 63 bits of the field.
InRange(v) == v[4] < LimbBase \div 2

\* FlagU32 (a u32 as two 16-bit limbs, the low one first): self.val >> 1
FlagU32_get_val(s) ==
    <<(s[1] \div 2) + (s[2] % 2) * (LimbBase \div 2), s[2] \div 2>>

\* (self.val & 0x1) == 1
FlagU32_get_flag(s) == (s[1] % 2) = 1

\* self.val = (self.val & 0x1) | (val << 1): the top bit of val is shifted
\* out of the word.
FlagU32_set_val(s, v) ==
    <<(s[1] % 2) + ((2 * v[1]) % LimbBase),
      (v[1] \div (LimbBase \div 2)) + ((2 * v[2]) % LimbBase)>>

\* self.val = (self.val & !0x1) | u32::from(flag)
FlagU32_set_flag(s, flag) ==
    <<(s[1] - (s[1] % 2)) + (IF flag THEN 1 ELSE 0), s[2]>>

\* The values passed to FlagU32::set_val: 0, 1, and the values around the
\* top of the field, 2^30, 2^31 - 1, 2^31 and u32::MAX.
BitVals32 ==
    {<<v[1], v[2]>> : v \in {Pow2(k) : k \in {0, 30, 31}}
                          \cup {Pow2Minus1(k) : k \in {0, 31, 32}}}

\* FlagU64::default(); the FlagU32, which has no constructor, is the
\* all-zero word it is as the content of a new Atom.
FlagNew ==
    /\ flag_u64 = U64Zero
    /\ f_val = <<>>
    /\ f_flag = <<>>
    /\ flag_u32 = <<0, 0>>
    /\ f_val32 = <<>>
    /\ f_flag32 = <<>>

\* f.set_val(v)
FlagSetVal(v) ==
    /\ flag_u64' = set_val(flag_u64, v)
    /\ f_val' = <<v>>
    /\ UNCHANGED <<f_flag, flag_u32, f_val32, f_flag32>>
    /\ UNCHANGED <<bvars, mem, svars, qvars, ovars, nvars>>

\* f.set_flag(b)
FlagSetFlag(b) ==
    /\ flag_u64' = set_flag(flag_u64, b)
    /\ f_flag' = <<b>>
    /\ UNCHANGED <<f_val, flag_u32, f_val32, f_flag32>>
    /\ UNCHANGED <<bvars, mem, svars, qvars, ovars, nvars>>

\* FlagU32: f.set_val(v)
FlagU32SetVal(v) ==
    /\ flag_u32' = FlagU32_set_val(flag_u32, v)
    /\ f_val32' = <<v>>
    /\ UNCHANGED <<flag_u64, f_val, f_flag, f_flag32>>
    /\ UNCHANGED <<bvars, mem, svars, qvars, ovars, nvars>>

\* FlagU32: f.set_flag(b)
FlagU32SetFlag(b) ==
    /\ flag_u32' = FlagU32_set_flag(flag_u32, b)
    /\ f_flag32' = <<b>>
    /\ UNCHANGED <<flag_u64, f_val, f_flag, f_val32>>
    /\ UNCHANGED <<bvars, mem, svars, qvars, ovars, nvars>>

FlagNext ==
    \/ \E v \in BitVals : FlagSetVal(v)
    \/ \E b \in BOOLEAN : FlagSetFlag(b)
    \/ \E v \in BitVals32 : FlagU32SetVal(v)
    \/ \E b \in BOOLEAN : FlagU32SetFlag(b)

(***************************************************************************)
(* NonceStack (src/src/stack.rs): one Atom holding the head pointer and a  *)
(* nonce that every transformation increments.  NonceStack::default()      *)
(* stops at todo!(); the stack here is the all-zero one that the code      *)
(* after it builds.                                                        *)
(***************************************************************************)
\* The threads that use the NonceStack.
NonceThreads == {1, 2}

\* Default for Atom<NonceHead<T>, u128>: all-zero bytes.
NonceDefault == [head |-> Null, nonce |-> 0]

NonceNew ==
    /\ nonce_head = NonceDefault
    /\ ns_pc = [t \in Threads |-> "idle"]
    /\ ns_op = [t \in Threads |-> "none"]
    /\ ns_old = [t \in Threads |-> NonceDefault]
    /\ ns_node = [t \in Threads |-> Null]
    /\ ns_uaf = [t \in Threads |-> FALSE]
    /\ ns_calls = 0
    /\ ns_pops = MaxPops

\* The transformation of NonceStack::push.
nonce_push_func(head, node) ==
    [commit |-> TRUE,
     new |-> [head |-> node, nonce |-> head.nonce + 1],
     res |-> Null,
     next |-> head.head]

\* What the read of (*p).next may return in heap m: the field of a live
\* node; any pointer when the node was freed.
read_next(m, p) == IF m[p].alloc THEN {m[p].next} ELSE Addr \cup {Null}

\* A transformation of NonceStack::pop that leaves the head where it was.
nonce_pop_keeps_head(head, next) ==
    IF head.head = Null
    THEN [commit |-> FALSE,
          new |-> [head |-> Null, nonce |-> head.nonce + 1],
          res |-> Null]
    ELSE [commit |-> TRUE,
          new |-> [head |-> head.head, nonce |-> head.nonce + 1],
          res |-> head.head]

\* The transformation of NonceStack::pop, next being what the read of
\* (*ret).next returned.
nonce_pop_func(head, next) ==
    IF head.head = Null
    THEN [commit |-> FALSE,
          new |-> [head |-> Null, nonce |-> head.nonce + 1],
          res |-> Null]
    ELSE [commit |-> TRUE,
          new |-> [head |-> next, nonce |-> head.nonce + 1],
          res |-> head.head]

\* Thread t calls push(val): the node is allocated, and atomic_try_update
\* loads the head.
NoncePush(t) ==
    /\ ns_pc[t] = "idle"
    /\ ns_calls < MaxPushes
    /\ \E a \in Addr :
          /\ can_alloc(mem, a)
          /\ mem' = alloc_node(a, ns_calls + 1)
          /\ ns_node' = [ns_node EXCEPT ![t] = a]
    /\ ns_calls' = ns_calls + 1
    /\ ns_op' = [ns_op EXCEPT ![t] = "push"]
    /\ ns_pc' = [ns_pc EXCEPT ![t] = "try"]
    /\ ns_old' = [ns_old EXCEPT ![t] = nonce_head]
    /\ ns_uaf' = [ns_uaf EXCEPT ![t] = FALSE]
    /\ UNCHANGED <<nonce_head, ns_pops>>
    /\ UNCHANGED <<bvars, svars, qvars, ovars, fvars>>

\* One iteration of the loop of atomic_try_update in thread t's push().
NoncePushTry(t) ==
    /\ ns_pc[t] = "try"
    /\ ns_op[t] = "push"
    /\ \E fr \in {nonce_push_func(ns_old[t], ns_node[t])} :
       \E u \in {atomic_try_update(fr, nonce_head, ns_old[t])} :
          /\ mem' = [mem EXCEPT ![ns_node[t]].next = fr.next]
          /\ nonce_head' = u.cell
          /\ ns_old' = [ns_old EXCEPT ![t] = u.old]
          /\ ns_pc' = [ns_pc EXCEPT ![t] = IF u.ret THEN "idle" ELSE "try"]
          /\ ns_node' = [ns_node EXCEPT ![t] = IF u.ret THEN Null ELSE ns_node[t]]
    /\ UNCHANGED <<ns_op, ns_uaf, ns_calls, ns_pops>>
    /\ UNCHANGED <<bvars, svars, qvars, ovars, fvars>>

\* Thread t calls pop(): atomic_try_update loads the head.
NoncePop(t) ==
    /\ ns_pc[t] = "idle"
    /\ ns_pops > 0
    /\ ns_pops' = ns_pops - 1
    /\ ns_op' = [ns_op EXCEPT ![t] = "pop"]
    /\ ns_pc' = [ns_pc EXCEPT ![t] = "try"]
    /\ ns_old' = [ns_old EXCEPT ![t] = nonce_head]
    /\ ns_uaf' = [ns_uaf EXCEPT ![t] = FALSE]
    /\ UNCHANGED <<mem, nonce_head, ns_node, ns_calls>>
    /\ UNCHANGED <<bvars, svars, qvars, ovars, fvars>>

\* One iteration of the loop of atomic_try_update in thread t's pop().  The
\* transformation reads (*ret).next before the compare_exchange: of a freed
\* node the read returns anything.  On success the call goes on to free
\* the node; on a null head it returns None.
NoncePopTry(t) ==
    /\ ns_pc[t] = "try"
    /\ ns_op[t] = "pop"
    /\ \E ret \in {ns_old[t].head} :
       \E next \in (IF ret = Null THEN {Null} ELSE read_next(mem, ret)) :
       \E fr \in {nonce_pop_func(ns_old[t], next)} :
       \E u \in {atomic_try_update(fr, nonce_head, ns_old[t])} :
          /\ nonce_head' = u.cell
          /\ ns_old' = [ns_old EXCEPT ![t] = u.old]
          /\ ns_uaf' = [ns_uaf EXCEPT ![t] = ret # Null /\ ~mem[ret].alloc]
          /\ ns_node' = [ns_node EXCEPT ![t] = IF u.ret THEN fr.res ELSE Null]
          /\ ns_pc' = [ns_pc EXCEPT
                          ![t] = IF ~u.ret THEN "try"
                                 ELSE IF fr.res = Null THEN "idle" ELSE "free"]
    /\ UNCHANGED <<mem, ns_op, ns_calls, ns_pops>>
    /\ UNCHANGED <<bvars, svars, qvars, ovars, fvars>>

\* The read of (*ret).next in thread t's pop() hits memory that was freed
\* and returned to the operating system: segmentation fault.
NoncePopFault(t) ==
    /\ ns_pc[t] = "try"
    /\ ns_op[t] = "pop"
    /\ ns_old[t].head # Null
    /\ ~mem[ns_old[t].head].alloc
    /\ ns_pc' = [ns_pc EXCEPT ![t] = "segv"]
    /\ ns_uaf' = [ns_uaf EXCEPT ![t] = TRUE]
    /\ UNCHANGED <<mem, nonce_head, ns_op, ns_old, ns_node, ns_calls, ns_pops>>
    /\ UNCHANGED <<bvars, svars, qvars, ovars, fvars>>

\* Some(unsafe { *Box::from_raw(node) }.val): thread t frees the node its
\* pop() took off the stack, and returns.
NoncePopFree(t) ==
    /\ ns_pc[t] = "free"
    /\ mem' = [mem EXCEPT ![ns_node[t]] = FreeNode]
    /\ ns_node' = [ns_node EXCEPT ![t] = Null]
    /\ ns_pc' = [ns_pc EXCEPT ![t] = "idle"]
    /\ UNCHANGED <<nonce_head, ns_op, ns_old, ns_uaf, ns_calls, ns_pops>>
    /\ UNCHANGED <<bvars, svars, qvars, ovars, fvars>>

NonceNext ==
    \E t \in NonceThreads :
        \/ NoncePush(t)
        \/ NoncePushTry(t)
        \/ NoncePop(t)
        \/ NoncePopTry(t)
        \/ NoncePopFault(t)
        \/ NoncePopFree(t)

vars == <<bvars, mem, svars, qvars, ovars, fvars, nvars>>

(***************************************************************************)
(* The specifications.  Each one starts from newly constructed objects and *)
(* runs the clients of one of them.                                        *)
(***************************************************************************)
\* The build: with overflow checks (debug) or without (release).
Build == overflow_checks \in BOOLEAN

BarrierInit == Build /\ BarrierNew(MaxCalls) /\ HeapInit /\ StackNew /\ QueueNew /\ OnceNew /\ FlagNew /\ NonceNew

BarrierSpec == BarrierInit /\ [][BarrierNext]_vars

ProtocolSpec == BarrierInit /\ [][ProtocolNext]_vars

\* Calls one execution makes on the barrier when fairness is assumed.
MaxFairCalls == 3

FairBarrierInit == Build /\ BarrierNew(MaxFairCalls) /\ HeapInit /\ StackNew /\ QueueNew /\ OnceNew /\ FlagNew /\ NonceNew

\* Every thread that can take a step inside a call eventually takes one: the
\* threads are scheduled, and a call that has begun runs on.  Calls are
\* finitely many, so that fairness of the steps of all threads together says
\* the same as fairness of each thread's.
FairBarrierSpec ==
    FairBarrierInit /\ [][BarrierNext]_vars /\ WF_vars(\E t \in Threads : BarrierStep(t))

\* The stack does no arithmetic: the build makes no difference to it.
StackInit == overflow_checks = FALSE /\ BarrierNew(0) /\ HeapInit /\ StackNew /\ QueueNew /\ OnceNew /\ FlagNew /\ NonceNew

StackSpec == StackInit /\ [][StackNext]_vars

QueueInit == Build /\ BarrierNew(0) /\ HeapInit /\ StackNew /\ QueueNew /\ OnceNew /\ FlagNew /\ NonceNew

QueueSpec == QueueInit /\ [][QueueNext]_vars

ClientSpec == QueueInit /\ [][ClientNext]_vars

ObservedSpec == QueueInit /\ [][ObservedNext]_vars

OnceInit == overflow_checks = FALSE /\ BarrierNew(0) /\ HeapInit /\ StackNew /\ QueueNew /\ OnceNew /\ FlagNew /\ NonceNew

OnceSpec == OnceInit /\ [][OnceNext]_vars

OnceMisuseSpec == OnceInit /\ [][OnceMisuseNext]_vars

FlagInit == overflow_checks = FALSE /\ BarrierNew(0) /\ HeapInit /\ StackNew /\ QueueNew /\ OnceNew /\ FlagNew /\ NonceNew

FlagSpec == FlagInit /\ [][FlagNext]_vars

NonceInit == overflow_checks = FALSE /\ BarrierNew(0) /\ HeapInit /\ StackNew /\ QueueNew /\ OnceNew /\ FlagNew /\ NonceNew

NonceSpec == NonceInit /\ [][NonceNext]_vars

\* The threads are scheduled, and a client that follows the loop goes on:
\* a call that has begun runs on, an iterator is drained, and the holder of
\* the claim calls consume_or_release_claim again.  Nobody is obliged to
\* push.  Calls are finitely many, so that fairness of these steps of all
\* threads together says the same as fairness of each thread's.
FairClientSpec ==
    /\ QueueInit
    /\ [][ObservedClientNext]_vars
    /\ WF_vars(\E t \in QueueThreads : QueueStep(t) \/ ClientConsume(t))

(***************************************************************************)
(* Properties of the ShutdownBarrier.                                      *)
(***************************************************************************)
\* Thread t has returned from a call of method o.
Returned(t, o) == b_op[t] = o /\ b_pc[t] = "ret"

\* At the end of thread t's transaction b_old[t] is the value the
\* transformation last ran on: the value the cell held at the successful
\* compare_exchange, or at the read that made the call return uncommitted.
Committed(t) == b_cas[t] = "ok"

\* C1: at most one done() call returns is_leader()=true, and a done() call
\* returns is_leader()=true exactly when its committed transaction took the
\* count from 1 to 0 while the cancel flag was clear.
C1_OneLeader ==
    /\ n_leader <= 1
    /\ \A t \in Threads :
          /\ Returned(t, "done") =>
                (b_res[t].leader <=>
                    /\ Committed(t)
                    /\ get_val(b_old[t]) = U64One
                    /\ ~get_flag(b_old[t]))
          /\ Returned(t, "done") /\ b_res[t].leader =>
                /\ b_res[t].ok
                /\ get_val(state) = U64Zero
                /\ ~get_flag(state)

\* A done() has returned as leader after another done() was committed, and a
\* racing done() was turned away.
C1_Witness ==
    \E t, u \in Threads :
        /\ t # u
        /\ Returned(t, "done") /\ b_res[t].leader
        /\ Returned(u, "done") /\ ~b_res[u].leader
        /\ n_done >= 2
        /\ n_spawn >= 1

\* No worker of the protocol is left: nobody is live, no spawn() or done()
\* is in flight and no spawned worker is still to start.
ProtocolQuiescent ==
    /\ \A t \in Threads :
          /\ role[t] # "live"
          /\ b_op[t] \in {"spawn", "done"} => b_pc[t] \in {"ret", "idle"}
    /\ Cardinality(Workers) = 1 + n_spawn

\* C2: under the client protocol and without cancel(), the count always
\* equals 1 + committed spawns - committed dones, no spawn() or done()
\* returns an error (or panics), the count is 0 exactly when every worker
\* has committed its done(), and once all have, exactly one done() has
\* reported leader=true.
C2_CountsConserved ==
    /\ get_val(state) = U64Of(1 + n_spawn - n_done)
    /\ ~get_flag(state)
    /\ \A t \in Threads :
          /\ b_pc[t] # "panic"
          /\ Returned(t, "spawn") \/ Returned(t, "done") => b_res[t].ok
    /\ n_done <= Cardinality({t \in Threads : role[t] = "finished"})
    /\ (get_val(state) = U64Zero) <=>
          (n_done = 1 + n_spawn /\ \A t \in Threads : role[t] # "live")
    /\ n_leader = (IF get_val(state) = U64Zero THEN 1 ELSE 0)
    /\ ProtocolQuiescent => get_val(state) = U64Zero /\ n_leader = 1

\* The initial worker spawned a worker, both are done and one led.
C2_Witness ==
    /\ ProtocolQuiescent
    /\ n_spawn >= 1
    /\ n_done = 1 + n_spawn
    /\ n_leader = 1
    /\ \E t \in Threads : Returned(t, "done") /\ b_res[t].leader

\* C3: a wait() returns with is_cancelled()=false only after the count has
\* reached 0 with the cancel flag clear, i.e. after the initial worker and
\* every spawned worker have committed their done().
C3_WaitCoversAllWorkers ==
    \A t \in Threads :
        Returned(t, "wait") /\ b_res[t].ok /\ ~b_res[t].cancelled =>
            /\ get_val(state) = U64Zero
            /\ ~get_flag(state)
            /\ n_done = 1 + n_spawn

\* A wait() that found the barrier running (it began before the workers were
\* done), was suspended and has returned uncancelled, a spawn in between.
C3_Witness ==
    \E t \in Threads :
        /\ Returned(t, "wait") /\ b_res[t].ok /\ ~b_res[t].cancelled
        /\ get_val(b_old[t]) # U64Zero
        /\ n_spawn >= 1

\* C4: once a cancel() has succeeded (the flag is set: only a committed
\* cancel() sets it), no wait() has returned or returns anything but
\* is_cancelled()=true, whatever done() calls are interleaved.
C4_CancelReachesWaiters ==
    get_flag(state) =>
        \A t \in Threads :
            Returned(t, "wait") => b_res[t].ok /\ b_res[t].cancelled

\* A wait() that saw the barrier running, was suspended and woken by the
\* cancel, and one that began after the cancel, a done() committed too.
C4_Witness ==
    \E t, u \in Threads :
        /\ t # u
        /\ Returned(t, "wait") /\ b_res[t].cancelled /\ ~get_flag(b_old[t])
        /\ Returned(u, "wait") /\ b_res[u].cancelled /\ get_flag(b_old[u])
        /\ n_done >= 1

\* Thread t is inside a wait() call.
Waiting(t) == b_op[t] = "wait" /\ b_pc[t] \in {"load", "try", "recv"}

\* C5: no wakeup is lost: under fair scheduling every wait() call returns
\* Ok once the barrier is terminal, and a wait() that began when the barrier
\* was already terminal never suspends on the channel.
C5_NoLostWakeup ==
    /\ \A t \in Threads :
          (Waiting(t) /\ Terminal) ~> (Returned(t, "wait") /\ b_res[t].ok)
    /\ [](\A t \in Threads : b_pc[t] = "recv" => ~b_term[t])

\* A wait() found the barrier running, suspended, and has returned Ok; and a
\* wait() that began on a terminal barrier has returned as well.
C5_Witness ==
    \E t, u \in Threads :
        /\ Returned(t, "wait") /\ b_res[t].ok
        /\ ~get_flag(b_old[t]) /\ get_val(b_old[t]) # U64Zero
        /\ Returned(u, "wait") /\ b_res[u].ok /\ b_term[u]

\* The step in which thread t's spawn() or cancel() returns an error.
FailsNow(t) ==
    /\ b_op[t] \in {"spawn", "cancel"}
    /\ b_pc[t] = "try"
    /\ b_pc'[t] = "ret"
    /\ ~b_res'[t].ok

\* C6: spawn() and cancel() return Err(AlreadyShutdown) exactly when, at
\* their linearization point, the flag is set or the count is 0; they then
\* leave the count and the flag unchanged and cancel() sends nothing.  No
\* spawn() is committed once the barrier is terminal.
C6_AlreadyShutdown ==
    /\ [](\A t \in Threads :
            /\ Returned(t, "spawn") \/ Returned(t, "cancel") =>
                  /\ ~b_res[t].ok <=>
                        (get_flag(b_old[t]) \/ get_val(b_old[t]) = U64Zero)
                  /\ ~b_res[t].ok <=> ~Committed(t)
            /\ b_pc[t] = "send" => Committed(t))
    /\ [][\A t \in Threads :
            FailsNow(t) => state' = state /\ broadcast' = broadcast]_vars
    /\ [][Terminal => n_spawn' = n_spawn]_vars

\* A spawn() and a cancel() were refused on a count of 0.
C6_Witness ==
    \E t, u \in Threads :
        /\ Returned(t, "spawn") /\ ~b_res[t].ok
        /\ ~get_flag(b_old[t]) /\ get_val(b_old[t]) = U64Zero
        /\ Returned(u, "cancel") /\ ~b_res[u].ok
        /\ get_val(b_old[u]) = U64Zero

(***************************************************************************)
(* Stack                                                                   *)
(***************************************************************************)
\* The values the iterators held by the threads of T have still to yield.
RECURSIVE IterBag(_)
IterBag(T) ==
    IF T = {}
    THEN EmptyBag
    ELSE LET t == CHOOSE x \in T : TRUE
         IN  SeqToBag(chain_vals(mem, s_iter[t])) (+) IterBag(T \ {t})

\* No call is running, no iterator is held, the stack is empty.
StackQuiescent ==
    /\ \A t \in Threads : s_pc[t] = "idle"
    /\ stack_head = Null

\* C7: in every interleaving of push and pop_all, each value of a committed
\* push is in exactly one place: in the stack, in one iterator, or yielded
\* once; when all calls are over and the stack was drained, the bag of the
\* yielded values is the bag of the pushed values.
C7_PushedYieldedOnce ==
    /\ s_pushed = s_yielded (+) SeqToBag(chain_vals(mem, stack_head)) (+) IterBag(Threads)
    /\ \A v \in BagToSet(s_pushed) : CopiesIn(v, s_pushed) = 1
    /\ StackQuiescent => s_yielded = s_pushed

C7_Witness ==
    /\ StackQuiescent
    /\ BagCardinality(s_yielded) = MaxPushes
    /\ s_pops = 0

\* Thread t's pop_all commits in this step.
PopAllCommits(t) ==
    /\ s_op[t] = "pop_all"
    /\ s_pc[t] = "try"
    /\ s_pc'[t] = "iter"

\* C8: the stack holds the pushes committed since the last pop_all commit,
\* latest first; a pop_all takes all of them at its commit and leaves the
\* stack empty, and takes nothing from an empty stack; its iterator yields
\* them latest first, and after rev() in the order of the commits.
C8_PopAllDetachesChain ==
    /\ [](/\ chain_vals(mem, stack_head) = Reverse(s_since)
          /\ \A t \in Threads :
                s_pc[t] = "iter" =>
                    s_got[t] \o chain_vals(mem, s_iter[t]) =
                        IF s_rev[t] THEN s_expect[t] ELSE Reverse(s_expect[t]))
    /\ [][\A t \in Threads :
            PopAllCommits(t) =>
                /\ stack_head' = Null
                /\ s_iter'[t] = stack_head
                /\ s_expect'[t] = Reverse(chain_vals(mem, stack_head))
                /\ stack_head = Null => s_iter'[t] = Null]_vars

C8_Witness ==
    \E t \in Threads :
        /\ s_pc[t] = "iter"
        /\ s_rev[t]
        /\ Len(s_got[t]) >= 2
        /\ s_got[t] = s_expect[t]
        /\ BagCardinality(s_yielded) > Len(s_got[t])

(***************************************************************************)
(* WriteOrderingQueue                                                      *)
(***************************************************************************)
\* C9: in every reachable state of the queue, whatever its clients do, a
\* non-null chain head means the claim bit is set.
C9_NonEmptyIsClaimed ==
    queue_head.next # Null => get_flag(queue_head.count_and_claim)

C9_Witness ==
    /\ queue_head.next # Null
    /\ \E t \in Threads : q_pc[t] = "iter" /\ ~q_hold[t] /\ q_iter[t] # Null

Holders == {t \in Threads : q_hold[t]}

\* Thread t is in a call of consume_or_release_claim or on its iterator.
Consuming(t) == q_op[t] = "consume" /\ q_pc[t] \in {"try", "iter"}

\* C10: when the clients follow the protocol, at most one thread holds the
\* claim, the claim bit is set exactly while a thread holds the claim, and
\* only the holder is in the consume loop.
C10_OneClaimHolder ==
    /\ Cardinality(Holders) <= 1
    /\ get_flag(queue_head.count_and_claim) <=> Holders # {}
    /\ \A t \in Threads : Consuming(t) => q_hold[t]
    /\ Cardinality({t \in Threads : Consuming(t)}) <= 1

C10_Witness ==
    /\ \E t \in Threads : q_hold[t] /\ q_pc[t] = "iter" /\ q_iter[t] # Null
    /\ \E i, j \in DOMAIN q_log :
          /\ q_log[i].claimed
          /\ q_log[j].claimed
          /\ q_log[i].by # q_log[j].by

(***************************************************************************)
(* The offset of the WriteOrderingQueue.  Sums of sizes are natural        *)
(* numbers that need not fit a u64: they are kept in five limbs.           *)
(***************************************************************************)
\* The natural number a u64 stands for.
WideOf(a) == <<a[1], a[2], a[3], a[4], 0>>

\* a + b for natural numbers of five limbs (the sums stay below 2^80).
WideAdd(a, b) ==
    LET s1 == a[1] + b[1]
        s2 == a[2] + b[2] + (s1 \div LimbBase)
        s3 == a[3] + b[3] + (s2 \div LimbBase)
        s4 == a[4] + b[4] + (s3 \div LimbBase)
        s5 == a[5] + b[5] + (s4 \div LimbBase)
    IN  <<s1 % LimbBase, s2 % LimbBase, s3 % LimbBase, s4 % LimbBase, s5 % LimbBase>>

\* a <= b for natural numbers of n limbs.
RECURSIVE LimbsLeq(_, _, _)
LimbsLeq(a, b, n) ==
    IF n = 0 THEN TRUE
    ELSE IF a[n] # b[n] THEN a[n] < b[n]
    ELSE LimbsLeq(a, b, n - 1)

\* The sum of the sizes of the entries of log pushed by the threads of T.
RECURSIVE SumSizes(_, _)
SumSizes(log, T) ==
    IF log = <<>>
    THEN WideOf(U64Zero)
    ELSE LET rest == SumSizes(Tail(log), T)
         IN  IF Head(log).by \in T THEN WideAdd(WideOf(Head(log).sz), rest) ELSE rest

\* The offset field of the queue.
Offset == get_val(queue_head.count_and_claim)

\* C11: the offset field is the sum of the sizes of the committed pushes and
\* never decreases; a step that commits no push leaves it unchanged;
\* get_offset() returns it and changes nothing; the offset a push returned
\* is at least the sum of the sizes its thread pushed before.
C11_OffsetIsSumOfSizes ==
    /\ [](WideOf(Offset) = SumSizes(q_log, Threads))
    /\ [][LimbsLeq(Offset, Offset', 4)]_vars
    /\ [][q_log' = q_log => Offset' = Offset]_vars
    /\ [][q_off' # q_off =>
            /\ q_off'[QueueObserver] = Offset
            /\ queue_head' = queue_head]_vars
    /\ [](\A i \in DOMAIN q_log :
            LimbsLeq(SumSizes(SubSeq(q_log, 1, i - 1), {q_log[i].by}),
                     WideOf(q_log[i].off), 5))

\* A natural number of five limbs modulo 2^63: what the 63-bit value field
\* of FlagU64 keeps of it.
Mod63(a) == <<a[1], a[2], a[3], a[4] % (LimbBase \div 2), 0>>

\* The sum of the sizes of the pushes number i to j - 1 of the log.
SizesFrom(i, j) == SumSizes(SubSeq(q_log, i, j - 1), Threads)

C13_YieldedInCommitOrder ==
    /\ Len(q_out) <= Len(q_log)
    /\ \A i \in DOMAIN q_out : q_out[i] = q_log[i].id

\* Two elements were yielded in two batches by two claim holders, in the
\* order of their commits, which is not the order of the calls.
C13_Witness ==
    /\ Len(q_out) = 2
    /\ q_log[1].id = 2
    /\ q_log[1].claimed /\ q_log[2].claimed
    /\ q_log[1].by # q_log[2].by

\* The size of the element with identifier id, from the log of the pushes.
SizeOf(id) == (CHOOSE e \in {q_log[i] : i \in DOMAIN q_log} : e.id = id).sz

\* The sum of the sizes of the elements yielded, out being their identifiers.
RECURSIVE SumYielded(_)
SumYielded(out) ==
    IF out = <<>>
    THEN WideOf(U64Zero)
    ELSE WideAdd(WideOf(SizeOf(Head(out))), SumYielded(Tail(out)))

\* No producer is in a call or in the consume loop.
ProducersFinished ==
    \A t \in QueueThreads : q_pc[t] \in {"idle", "panic"} /\ ~q_hold[t]

\* C14: under the client loop and fair scheduling every pushed element is
\* eventually consumed, and only once; when the producers have finished the
\* queue is empty, the claim bit clear, and the sum of the dequeued sizes is
\* get_offset() and the sum of the inserted sizes; a non-empty queue always
\* has a thread that is going to consume it.
C14_NothingStranded ==
    /\ \A k \in 1..MaxEnqueues : (Len(q_log) >= k) ~> (Len(q_out) >= k)
    /\ [](\A i, j \in DOMAIN q_out : i # j => q_out[i] # q_out[j])
    /\ [](\A i \in DOMAIN q_out : \E j \in DOMAIN q_log : q_log[j].id = q_out[i])
    /\ [](ProducersFinished =>
            /\ queue_head.next = Null
            /\ ~get_flag(queue_head.count_and_claim)
            /\ SumYielded(q_out) = SumSizes(q_log, Threads)
            /\ WideOf(Offset) = SumSizes(q_log, Threads))
    /\ [][ProducersFinished /\ q_off' # q_off =>
            WideOf(q_off'[QueueObserver]) = SumYielded(q_out)]_vars
    /\ [](queue_head.next # Null =>
            \E t \in QueueThreads : q_hold[t] /\ q_pc[t] # "panic")

(***************************************************************************)
(* OnceLockFree                                                            *)
(***************************************************************************)
\* Thread t's call of method o has returned.
OnceReturned(t, o) == o_op[t] = o /\ o_pc[t] = "ret"

\* The lifecycle the transformation of thread t's call last ran on: at the
\* end of the call, the lifecycle at its successful compare_exchange, or at
\* the read that made it return uncommitted.
Seen(t) == FlagPtr_get_flag(o_old[t])

\* The step is the return of a call of thread t.
OnceReturns(t) == o_pc[t] = "try" /\ o_pc'[t] = "ret"

\* The cell with value ptr installed.
Installed(ptr) == set_ptr(FlagPtr_set_flag(0, Set), ptr)

\* C15: a setter is decided by the lifecycle its transformation ran on.
\* set(v) succeeds from NotSet only, and fails with AttemptToSetConcurrently
\* from Setting and AlreadySet from Set; set_prepared(v) succeeds from
\* Setting only, and fails with UnpreparedForSet from NotSet and AlreadySet
\* from Set.  A successful setter leaves the cell Set with its own box; a
\* failed one leaves the cell as it was; a Set cell keeps its value until it
\* is dropped, and get() returns that value.
C15_SettersByLifecycle ==
    /\ [](\A t \in Threads :
            /\ OnceReturned(t, "set") =>
                  /\ Seen(t) \in {NotSet, Setting, Set}
                  /\ Seen(t) = NotSet =>
                        o_res[t] = OkSome(o_ptr[t]) /\ o_cas[t] = "ok"
                  /\ Seen(t) = Setting =>
                        o_res[t] = Err("AttemptToSetConcurrently") /\ o_cas[t] # "ok"
                  /\ Seen(t) = Set =>
                        o_res[t] = Err("AlreadySet") /\ o_cas[t] # "ok"
            /\ OnceReturned(t, "set_prepared") =>
                  /\ Seen(t) \in {NotSet, Setting, Set}
                  /\ Seen(t) = Setting =>
                        o_res[t] = OkSome(o_ptr[t]) /\ o_cas[t] = "ok"
                  /\ Seen(t) = NotSet =>
                        o_res[t] = Err("UnpreparedForSet") /\ o_cas[t] # "ok"
                  /\ Seen(t) = Set =>
                        o_res[t] = Err("AlreadySet") /\ o_cas[t] # "ok"
            /\ OnceReturned(t, "get") /\ o_res[t].ok /\ ~o_dropped =>
                  /\ o_res[t].ptr # 0
                  /\ once_inner = Installed(o_res[t].ptr))
    /\ [][\A t \in Threads :
            OnceReturns(t) /\ o_op[t] \in OnceSetters =>
                IF o_res'[t].ok
                THEN /\ FlagPtr_get_flag(once_inner) =
                            (IF o_op[t] = "set" THEN NotSet ELSE Setting)
                     /\ once_inner' = Installed(o_ptr[t])
                     /\ o_box[o_ptr[t] \div Align8].val \in OnceValues
                ELSE once_inner' = once_inner]_vars
    /\ [][FlagPtr_get_flag(once_inner) = Set /\ ~o_dropped' =>
            /\ once_inner' = once_inner
            /\ SubSeq(o_box', 1, Len(o_box)) = o_box]_vars

\* A set() has succeeded, a second set() was turned away with AlreadySet,
\* and a get() returned the value of the first.
C15_Witness ==
    \E t, u, w \in Threads :
        /\ OnceReturned(t, "set") /\ o_res[t].ok
        /\ OnceReturned(u, "set") /\ o_res[u] = Err("AlreadySet")
        /\ OnceReturned(w, "get") /\ o_res[w] = OkSome(o_ptr[t])

\* C16: get_or_prepare_to_set() on NotSet commits NotSet->Setting and
\* returns Ok(None); on Setting it returns Err(AttemptToSetConcurrently) and
\* on Set the stored value (None when sealed), both without a store.  Of all
\* the calls made on a cell exactly one commits, so that until a value is
\* set only that one has returned Ok(None).
C16_OnePreparer ==
    /\ [](\A t \in Threads :
            OnceReturned(t, "get_or_prepare_to_set") =>
                /\ Seen(t) \in {NotSet, Setting, Set}
                /\ Seen(t) = NotSet => o_res[t] = OkNone /\ o_cas[t] = "ok"
                /\ Seen(t) = Setting =>
                      o_res[t] = Err("AttemptToSetConcurrently") /\ o_cas[t] # "ok"
                /\ Seen(t) = Set =>
                      o_res[t] = ptr_or_none(o_old[t]) /\ o_cas[t] # "ok")
    /\ [][\A t \in Threads :
            OnceReturns(t) /\ o_op[t] = "get_or_prepare_to_set" =>
                IF o_cas'[t] = "ok"
                THEN once_inner = NotSet /\ once_inner' = Setting
                ELSE once_inner' = once_inner]_vars
    /\ [](n_prepared <= 1)
    /\ [](FlagPtr_get_flag(once_inner) = Setting => n_prepared = 1)
    /\ [](\A t \in Threads :
            OnceReturned(t, "get_or_prepare_to_set") /\ Seen(t) \in {NotSet, Setting} =>
                n_prepared = 1)
    /\ [](Cardinality({t \in Threads :
                /\ OnceReturned(t, "get_or_prepare_to_set")
                /\ o_res[t] = OkNone
                /\ Seen(t) # Set}) <= 1)

\* Three concurrent get_or_prepare_to_set() calls on a new cell have
\* returned: one Ok(None), two AttemptToSetConcurrently, one of which had
\* loaded the cell NotSet and lost the compare_exchange.
C16_Witness ==
    \E t, u, w \in Threads :
        /\ t # u /\ t # w /\ u # w
        /\ OnceReturned(t, "get_or_prepare_to_set") /\ o_res[t] = OkNone
        /\ OnceReturned(u, "get_or_prepare_to_set")
        /\ o_res[u] = Err("AttemptToSetConcurrently") /\ o_tries[u] = 1
        /\ OnceReturned(w, "get_or_prepare_to_set")
        /\ o_res[w] = Err("AttemptToSetConcurrently")
        /\ once_inner = Setting

\* The word of a sealed cell: Set with a null pointer.
Sealed == Installed(0)

\* C17: get_or_seal() on NotSet commits Set with a null pointer and returns
\* Ok(None).  A sealed cell stays sealed until it is dropped: every setter
\* that reads it fails with AlreadySet, get_or_seal(), get_poll() and
\* get_or_prepare_to_set() return None, and no value is ever installed.
\* get_or_seal() on a cell holding a value returns the value without a store.
C17_SealIsFinal ==
    /\ [](\A t \in Threads :
            /\ OnceReturned(t, "get_or_seal") =>
                  /\ Seen(t) = NotSet => o_res[t] = OkNone /\ o_cas[t] = "ok"
                  /\ Seen(t) = Set =>
                        o_res[t] = ptr_or_none(o_old[t]) /\ o_cas[t] # "ok"
            /\ o_pc[t] = "ret" /\ o_old[t] = Sealed =>
                  /\ o_op[t] \in OnceSetters => o_res[t] = Err("AlreadySet")
                  /\ o_op[t] \in {"get_or_seal", "get_poll", "get_or_prepare_to_set"} =>
                        o_res[t] = OkNone
                  /\ o_cas[t] # "ok")
    /\ [][\A t \in Threads :
            OnceReturns(t) /\ o_op[t] = "get_or_seal" =>
                IF o_cas'[t] = "ok"
                THEN once_inner = NotSet /\ once_inner' = Sealed
                ELSE once_inner' = once_inner]_vars
    /\ [][once_inner = Sealed /\ ~o_dropped' => once_inner' = Sealed]_vars
    /\ [][once_inner = Sealed /\ ~o_dropped =>
            \A t \in Threads : o_pc[t] # "try" /\ o_pc'[t] = "try" =>
                o_old'[t] = Sealed]_vars
    /\ [](once_inner = Sealed => n_installed = 0)
    /\ [][once_inner = Sealed => n_installed' = 0 /\ get_ptr(once_inner') = 0]_vars

\* A get_or_seal() has sealed a new cell; a set() made afterwards failed with
\* AlreadySet and a get_poll() made afterwards returned None.
C17_Witness ==
    \E t, u, w \in Threads :
        /\ OnceReturned(t, "get_or_seal") /\ o_res[t] = OkNone /\ o_cas[t] = "ok"
        /\ OnceReturned(u, "set") /\ o_old[u] = Sealed /\ o_tries[u] = 0
        /\ o_res[u] = Err("AlreadySet")
        /\ OnceReturned(w, "get_poll") /\ o_old[w] = Sealed /\ o_res[w] = OkNone

\* Thread t's set() has returned, and it had begun on a cell that a
\* get_or_prepare_to_set() had left Setting and no set_prepared() had yet
\* set: it loaded Setting and made no compare_exchange.
SetAfterPrepare(t) ==
    /\ OnceReturned(t, "set")
    /\ o_old[t] = Setting
    /\ o_tries[t] = 0

\* C18 as claimed: after get_or_prepare_to_set() has returned None, a set()
\* made without an intervening set_prepared() is rejected with AlreadySet.
C18_RejectedAlreadySet ==
    \A t \in Threads : SetAfterPrepare(t) => o_res[t] = Err("AlreadySet")

\* C18: after get_or_prepare_to_set() has returned None, a set() made
\* without an intervening set_prepared() is rejected with
\* AttemptToSetConcurrently, and makes no store.
C18_RejectedConcurrently ==
    /\ [](\A t \in Threads :
            SetAfterPrepare(t) =>
                /\ o_res[t] = Err("AttemptToSetConcurrently")
                /\ o_cas[t] = "none"
                /\ n_prepared = 1)
    /\ [][\A t \in Threads :
            OnceReturns(t) /\ o_op[t] = "set" /\ o_old[t] = Setting =>
                once_inner' = once_inner]_vars
    /\ [][\A t \in Threads :
            /\ once_inner = Setting /\ ~o_dropped
            /\ o_pc[t] # "try" /\ o_pc'[t] = "try" /\ o_op'[t] = "set"
            => o_old'[t] = Setting]_vars

\* One thread's get_or_prepare_to_set() returned None, and another thread's
\* set() made afterwards was rejected while the cell was still Setting.
C18_Witness ==
    \E t, u \in Threads :
        /\ t # u
        /\ OnceReturned(t, "get_or_prepare_to_set") /\ o_res[t] = OkNone
        /\ SetAfterPrepare(u)
        /\ once_inner = Setting

\* C19: the closure of get_poll() commits on no word, whatever its tag (the
\* null pointer and the first box are tried with each of the eight tags);
\* get_poll() makes no store and no compare_exchange, and returns no
\* error; it returns Some(value) exactly when the lifecycle it read is Set
\* with a non-null pointer, the value being the one a setter installed, and
\* None otherwise.
C19_PollReadsOnly ==
    /\ \A s \in 0..(2 * Align8 - 1) :
            \E fr \in {get_poll_func(s)} :
                ~fr.commit /\ ~fr.panic /\ fr.res.ok /\ fr.new = s
    /\ [](\A t \in Threads :
            /\ o_op[t] = "get_poll" => o_tries[t] = 0 /\ o_cas[t] = "none"
            /\ o_op[t] = "get_poll" => o_pc[t] # "panic"
            /\ OnceReturned(t, "get_poll") =>
                  /\ o_res[t].ok
                  /\ o_res[t].ptr # 0 <=> (Seen(t) = Set /\ get_ptr(o_old[t]) # 0)
                  /\ o_res[t].ptr = (IF Seen(t) = Set THEN get_ptr(o_old[t]) ELSE 0)
                  /\ o_res[t].ptr # 0 =>
                        /\ n_installed = 1
                        /\ get_ptr(once_inner) = o_res[t].ptr)
    /\ [][\A t \in Threads :
            o_op[t] = "get_poll" /\ o_pc[t] = "try" /\ o_pc'[t] # "try" =>
                once_inner' = once_inner /\ o_pc'[t] = "ret"]_vars
    /\ [][\A t \in Threads :
            /\ o_pc[t] # "try" /\ o_pc'[t] = "try" /\ o_op'[t] = "get_poll"
            => (o_old'[t] = once_inner /\
                (n_installed = 1 <=> (FlagPtr_get_flag(once_inner) = Set
                                        /\ get_ptr(once_inner) # 0)))]_vars

\* A get_poll() returned None on the new cell, and after a set() one
\* returned the value set.
C19_Witness ==
    \E t, u, w \in Threads :
        /\ OnceReturned(t, "get_poll") /\ o_res[t] = OkNone /\ Seen(t) = NotSet
        /\ OnceReturned(u, "set") /\ o_res[u].ok
        /\ OnceReturned(w, "get_poll") /\ o_res[w] = OkSome(o_ptr[u])

\* C20: every call of set, set_prepared, get_or_prepare_to_set, get_or_seal,
\* get and get_poll makes at most one compare_exchange: after a failed one
\* the transformation, run again on the value the cell then held, does not
\* commit, and the call returns at its next step.
C20_WaitFree ==
    /\ [](\A t \in Threads :
            /\ o_tries[t] <= 1
            /\ o_pc[t] = "try" /\ o_tries[t] = 1 =>
                  /\ o_cas[t] = "fail"
                  /\ ~once_func(o_op[t], o_ptr[t], o_old[t]).commit)
    /\ [][\A t \in Threads :
            o_pc[t] = "try" /\ o_pc'[t] = "try" /\ o_tries'[t] # o_tries[t] =>
                /\ o_tries[t] = 0
                /\ once_inner # o_old[t]
                /\ o_old'[t] = once_inner]_vars
    /\ [][\A t \in Threads :
            o_pc[t] = "try" /\ o_tries[t] = 1 /\ o_pc'[t] # o_pc[t] =>
                o_pc'[t] = "ret" /\ o_tries'[t] = 1 /\ once_inner' = once_inner]_vars

\* Under contention: a set() and a get_or_seal() lost their compare_exchange
\* to a third call and returned with no second attempt.
C20_Witness ==
    \E t, u \in Threads :
        /\ OnceReturned(t, "set") /\ o_tries[t] = 1 /\ o_cas[t] = "none"
        /\ OnceReturned(u, "get_or_seal") /\ o_tries[u] = 1 /\ o_cas[u] = "none"

(***************************************************************************)
(* Progress of the barrier's transactions                                  *)
(***************************************************************************)
\* Thread t is in spawn(), cancel() or done().
NonWaiting(t) == b_op[t] \in {"spawn", "cancel", "done"}

\* The step is an iteration of the loop of atomic_try_update in thread t's
\* call: the call leaves the loop, or a failed compare_exchange gives it a
\* new `old`.
TryStep(t) ==
    /\ b_pc[t] = "try"
    /\ b_pc'[t] # "try" \/ b_old'[t] # b_old[t]

\* The step is a failed compare_exchange of thread t.
FailedCas(t) == b_pc[t] = "try" /\ b_pc'[t] = "try" /\ b_old'[t] # b_old[t]

\* The step ends the transaction of thread t's call without a panic.
Completes(t) == b_pc[t] = "try" /\ b_pc'[t] \notin {"try", "panic"}

\* C21 as claimed: spawn(), cancel() and done() complete in exactly one
\* compare_exchange: none is made after a failed one, and a call that
\* completes has made one.
C21_ExactlyOneCas ==
    [][\A t \in Threads :
        NonWaiting(t) /\ TryStep(t) =>
            /\ b_cas[t] = "fail" => b_cas'[t] = "none"
            /\ Completes(t) => b_cas'[t] = "ok" \/ b_cas[t] = "fail"]_vars

\* C21: spawn(), cancel() and done() complete in one compare_exchange when
\* no other call commits between the read of the state and the
\* compare_exchange, and with none when they are refused.  A
\* compare_exchange fails only when the state is no longer the value read,
\* which only a committed transaction brings about; it stores nothing, and
\* the call goes on with the value the state then holds.
C21_OneCasUnlessInterfered ==
    /\ [][\A t \in Threads :
            NonWaiting(t) /\ TryStep(t) =>
                /\ state = b_old[t] => b_pc'[t] # "try"
                /\ Completes(t) =>
                      /\ b_cas'[t] \in {"ok", "none"}
                      /\ b_cas'[t] = "ok" <=> b_res'[t].ok
                      /\ b_cas'[t] = "ok" => state = b_old[t]
                      /\ b_cas'[t] = "none" => state' = state
                /\ FailedCas(t) =>
                      /\ state # b_old[t]
                      /\ state' = state
                      /\ b_old'[t] = state
                      /\ b_cas'[t] = "fail"]_vars
    /\ [][state' # state =>
            \E t \in Threads : Completes(t) /\ b_cas'[t] = "ok"]_vars

\* A spawn() has lost its compare_exchange to another call and is about to
\* make a second one.
C21_Witness ==
    \E t \in Threads :
        /\ b_op[t] = "spawn"
        /\ b_pc[t] = "try"
        /\ b_cas[t] = "fail"
        /\ spawn_func(b_old[t]).commit

\* C22: atomic_try_update on the barrier's state, for the transformations
\* of spawn, cancel, done and wait.  The state changes only in a successful
\* compare_exchange; the value stored and the result returned are those the
\* transformation gives on the value the state held just before it; a
\* failed compare_exchange stores nothing and restarts the call from the
\* value the state holds, whatever the transformation did to its scratch
\* copy; a transformation that returns commit=false ends the call with its
\* result and no store.
C22_Linearizable ==
    /\ [][\A t \in Threads :
            TryStep(t) =>
                /\ b_cas'[t] = "ok" =>
                      /\ state = b_old[t]
                      /\ state' = barrier_func(b_op[t], state).new
                      /\ b_res'[t] = barrier_after(b_op[t],
                                         barrier_func(b_op[t], state).res).res
                      /\ Completes(t)
                /\ b_cas'[t] # "ok" => state' = state
                /\ FailedCas(t) =>
                      /\ barrier_func(b_op[t], b_old[t]).commit
                      /\ b_old'[t] = state
                /\ Completes(t) /\ b_cas'[t] = "none" =>
                      /\ ~barrier_func(b_op[t], b_old[t]).commit
                      /\ b_res'[t] = barrier_after(b_op[t],
                                         barrier_func(b_op[t], b_old[t]).res).res]_vars
    /\ [][state' # state => \E t \in Threads : TryStep(t) /\ b_cas'[t] = "ok"]_vars

\* In a build without overflow checks a done() ran on a count of 0: its
\* scratch copy was decremented, nothing was stored, and it was refused;
\* another call has lost a compare_exchange and holds the state's value.
C22_Witness ==
    \E t, u \in Threads :
        /\ t # u
        /\ ~overflow_checks
        /\ Returned(u, "done") /\ ~b_res[u].ok
        /\ done_func(b_old[u]).new # b_old[u]
        /\ state = b_old[u]
        /\ b_pc[t] = "try" /\ b_cas[t] = "fail" /\ b_old[t] = state

(***************************************************************************)
(* FlagU64                                                                 *)
(***************************************************************************)
\* C23: after set_val(v) with v < 2^63 and set_flag(b), in either order and
\* with set_val or set_flag applied again, get_val() is the v of the latest
\* set_val and get_flag() the b of the latest set_flag; set_val never changes
\* the flag, for any v, and set_flag never changes the value.
C23_RoundTrip ==
    /\ [](f_val # <<>> /\ InRange(f_val[1]) => get_val(flag_u64) = f_val[1])
    /\ [](f_flag # <<>> => get_flag(flag_u64) = f_flag[1])
    /\ [][f_val' # f_val => get_flag(flag_u64') = get_flag(flag_u64)]_vars
    /\ [][f_flag' # f_flag => get_val(flag_u64') = get_val(flag_u64)]_vars
    /\ [][get_flag(flag_u64') # get_flag(flag_u64) => f_flag' # f_flag]_vars
    /\ [][get_val(flag_u64') # get_val(flag_u64) => f_val' # f_val]_vars

\* The largest value, 2^63 - 1, and the flag are both set: every bit of the
\* word is 1.
C23_Witness ==
    /\ f_val = <<Pow2Minus1(63)>>
    /\ f_flag = <<TRUE>>
    /\ flag_u64 = U64Max

(***************************************************************************)
(* ShutdownBarrier::done                                                   *)
(***************************************************************************)
\* The step ends the transaction of thread t's done(), in a return or in a
\* panic, and the transformation ran on the value the state holds.
DoneDecides(t) ==
    /\ b_op[t] = "done"
    /\ b_pc[t] = "try"
    /\ b_pc'[t] # "try"
    /\ b_old[t] = state

\* The state with its count decremented as done() does it.
Decremented(s) == set_val(s, wrapping_sub(get_val(s), U64One))

\* C24: the outcome of done() is fixed by the state at its commit point.
\* With the cancel flag set it commits the decrement and returns
\* cancelled=true, leader=false; with the flag clear and a count of 1 it
\* commits a count of 0, returns cancelled=false, leader=true and then
\* broadcasts false; with the flag clear and a count above 1 it commits
\* count - 1 and returns cancelled=false, leader=false.  done() never
\* changes the cancel flag.
C24_DoneOutcome ==
    /\ [][\A t \in Threads :
            DoneDecides(t) =>
                /\ get_flag(state) =>
                      /\ b_pc'[t] = "ret"
                      /\ b_cas'[t] = "ok"
                      /\ state' = Decremented(state)
                      /\ b_res'[t] = OkRes(TRUE, FALSE)
                /\ ~get_flag(state) /\ get_val(state) = U64One =>
                      /\ b_pc'[t] = "send"
                      /\ b_cas'[t] = "ok"
                      /\ state' = set_val(state, U64Zero)
                      /\ b_res'[t] = OkRes(FALSE, TRUE)
                /\ ~get_flag(state) /\ get_val(state) \notin {U64Zero, U64One} =>
                      /\ b_pc'[t] = "ret"
                      /\ b_cas'[t] = "ok"
                      /\ state' = Decremented(state)
                      /\ b_res'[t] = OkRes(FALSE, FALSE)]_vars
    /\ [][\A t \in Threads :
            b_op[t] = "done" /\ b_pc[t] = "send" /\ b_pc'[t] # "send" =>
                b_pc'[t] = "ret" /\ broadcast' = Append(broadcast, FALSE)]_vars
    /\ [][\A t \in Threads :
            b_op[t] = "done" /\ b_pc'[t] # b_pc[t] =>
                get_flag(state') = get_flag(state)]_vars

\* C25: done() on a count of 0 with the cancel flag clear returns
\* Err(AlreadyShutdown), commits nothing, sends no broadcast, and does not
\* abort in the decrement that precedes the check.
C25_DoneAfterShutdown ==
    [][\A t \in Threads :
        DoneDecides(t) /\ ~get_flag(state) /\ get_val(state) = U64Zero =>
            /\ b_pc'[t] = "ret"
            /\ b_res'[t] = AlreadyShutdown
            /\ b_cas'[t] = "none"
            /\ state' = state
            /\ broadcast' = broadcast]_vars

\* The count after n_done committed done() calls and n_spawn committed
\* spawn() calls: 1 + n_spawn - n_done, taken modulo 2^63 once the done()
\* calls outnumber the workers.
CountOwed ==
    IF n_done <= n_spawn + 1
    THEN U64Of(1 + n_spawn - n_done)
    ELSE get_val(set_val(U64Zero, wrapping_sub(U64Zero, U64Of(n_done - n_spawn - 1))))

\* C26: with the cancel flag set done() commits its decrement on every
\* count.  The count is 1 + spawns - dones, so that a done() made after as
\* many done() calls as there were workers runs on a count of 0; with the
\* flag set it is not refused: the subtraction aborts in a build with
\* overflow checks, and otherwise the count wraps to 2^63 - 1, which is
\* committed with cancelled=true.
C26_CancelledUnderflow ==
    /\ [](get_val(state) = CountOwed)
    /\ [](n_done > n_spawn + 1 => get_flag(state) /\ ~overflow_checks)
    /\ [][\A t \in Threads :
            DoneDecides(t) /\ get_flag(state) =>
                IF get_val(state) = U64Zero /\ overflow_checks
                THEN /\ b_pc'[t] = "panic"
                     /\ state' = state
                ELSE /\ b_pc'[t] = "ret"
                     /\ b_cas'[t] = "ok"
                     /\ b_res'[t] = OkRes(TRUE, FALSE)
                     /\ state' = Decremented(state)
                     /\ get_val(state) = U64Zero =>
                            get_val(state') = Pow2Minus1(63)]_vars

\* After a cancel() a done() ran on a count of 0 and the wrapped count,
\* 2^63 - 1, is in the barrier.
C26_Witness ==
    \E t \in Threads :
        /\ Returned(t, "done") /\ b_res[t] = OkRes(TRUE, FALSE)
        /\ get_flag(b_old[t]) /\ get_val(b_old[t]) = U64Zero
        /\ get_flag(state) /\ get_val(state) = Pow2Minus1(63)
        /\ n_done = n_spawn + 2

(***************************************************************************)
(* ShutdownBarrier::wait                                                   *)
(***************************************************************************)
\* C27 as claimed: the transformation of wait() returns commit=false in all
\* its branches, and wait() never makes a compare_exchange.
C27_WaitNeverCommits ==
    \A t \in Threads : b_op[t] = "wait" => b_cas[t] = "none"

\* C27: wait() never changes the state of the barrier.  With the flag set,
\* and with the flag clear and a count above 0, its transformation returns
\* commit=false and no compare_exchange is made; with the flag clear and a
\* count of 0 it returns commit=true on the unmodified state, and wait()
\* makes one compare_exchange, which succeeds and stores the value the state
\* holds.
C27_WaitKeepsState ==
    /\ [][\A t \in Threads :
            b_op[t] = "wait" /\ TryStep(t) =>
                /\ state' = state
                /\ wait_func(b_old[t]).new = b_old[t]
                /\ Completes(t)
                /\ b_cas'[t] = (IF ~get_flag(b_old[t]) /\ get_val(b_old[t]) = U64Zero
                                THEN "ok" ELSE "none")]_vars
    /\ [](\A t \in Threads : b_op[t] = "wait" => b_cas[t] # "fail")

\* A wait() on a barrier that had completed has returned cancelled=false
\* after a successful compare_exchange.
C27_Witness ==
    \E t \in Threads :
        /\ Returned(t, "wait") /\ b_res[t] = OkRes(FALSE, FALSE)
        /\ b_cas[t] = "ok"
        /\ b_old[t] = state
        /\ get_val(state) = U64Zero /\ ~get_flag(state)

(***************************************************************************)
(* WriteOrderingQueue::consume_or_release_claim                            *)
(***************************************************************************)
\* The step in which the compare_exchange of thread t's
\* consume_or_release_claim() succeeds.
ConsumeCommits(t) ==
    /\ q_op[t] = "consume"
    /\ q_pc[t] = "try"
    /\ q_pc'[t] # "try"

\* The identifiers of the elements whose pushes committed and which no
\* iterator has yielded, in the order of the commits.
Unyielded == [i \in 1..(Len(q_log) - Len(q_out)) |-> q_log[Len(q_out) + i].id]

\* The identifiers the iterator at pointer p yields in heap m, first to last.
IterIds(m, p) == [i \in 1..Len(chain_vals(m, p)) |-> chain_vals(m, p)[i].id]

\* C28: when the clients follow the protocol, the step that commits the
\* claim holder's consume_or_release_claim() passes the assertion, leaves the
\* offset unchanged and the head without a chain; on an empty queue it clears
\* the claim bit and returns an empty iterator with false; otherwise it
\* keeps the claim bit and returns, with true, an iterator over exactly the
\* elements that were linked, in the order in which their pushes committed.
C28_ConsumeDetachesAll ==
    [][\A t \in QueueThreads :
          ConsumeCommits(t) =>
             /\ q_hold[t]
             /\ q_pc'[t] # "panic"
             /\ get_val(queue_head'.count_and_claim)
                   = get_val(queue_head.count_and_claim)
             /\ queue_head'.next = Null
             /\ IF queue_head.next = Null
                THEN /\ ~get_flag(queue_head'.count_and_claim)
                     /\ q_iter'[t] = Null
                     /\ q_pc'[t] = "idle"
                     /\ ~q_hold'[t]
                ELSE /\ get_flag(queue_head'.count_and_claim)
                     /\ q_pc'[t] = "iter"
                     /\ q_hold'[t]
                     /\ IterIds(mem', q_iter'[t]) = Unyielded
                     /\ Len(Unyielded) = Len(chain_vals(mem, queue_head.next))
                     /\ Unyielded # <<>>]_vars

\* A claim holder has detached two elements whose pushes committed in the
\* order opposite to that of the calls, and has yielded none of them yet.
C28_Witness ==
    \E t \in QueueThreads :
        /\ q_hold[t]
        /\ q_op[t] = "consume"
        /\ q_pc[t] = "iter"
        /\ queue_head.next = Null
        /\ get_flag(queue_head.count_and_claim)
        /\ q_out = <<>>
        /\ IterIds(mem, q_iter[t]) = <<2, 1>>

\* C29 as stated: a consume_or_release_claim() whose caller does not hold
\* the claim fails the assertion, removes no elements and leaves the claim
\* bit as it was.
C29_NonHolderRejected ==
    [][\A t \in QueueThreads :
          ConsumeCommits(t) /\ ~q_hold[t] =>
             /\ q_pc'[t] = "panic"
             /\ queue_head'.next = queue_head.next
             /\ get_flag(queue_head'.count_and_claim)
                   = get_flag(queue_head.count_and_claim)]_vars

\* C29: whatever the clients do, the assertion of
\* consume_or_release_claim() fails exactly when the claim bit was clear at
\* the commit, and such a call leaves the head as it was; a call of a thread
\* that does not hold the claim, made while the bit is set, passes the
\* assertion and detaches the chain or, on an empty queue, clears the bit.
C29_AssertionTestsClaimBit ==
    [][\A t \in QueueThreads :
          ConsumeCommits(t) =>
             /\ q_pc'[t] = "panic" <=> ~get_flag(queue_head.count_and_claim)
             /\ ~get_flag(queue_head.count_and_claim) => queue_head' = queue_head
             /\ ~q_hold[t] /\ get_flag(queue_head.count_and_claim) =>
                   /\ queue_head'.next = Null
                   /\ get_flag(queue_head'.count_and_claim)
                         <=> queue_head.next # Null
                   /\ IterIds(mem', q_iter'[t])
                         = Reverse(IterIds(mem, queue_head.next))]_vars

\* A thread that does not hold the claim has passed the assertion and holds
\* an iterator over the element of the thread that holds the claim.
C29_Witness ==
    \E t, h \in QueueThreads :
        /\ q_hold[h]
        /\ ~q_hold[t]
        /\ q_op[t] = "consume"
        /\ q_pc[t] = "iter"
        /\ q_iter[t] # Null
        /\ \A i \in DOMAIN q_log : q_log[i].by = h

(***************************************************************************)
(* The lifecycle of OnceLockFree                                           *)
(***************************************************************************)
\* The lifecycle tag of the cell.
Tag == FlagPtr_get_flag(once_inner)

\* The moves of the tag from a to b.
LifecycleMoves ==
    {<<NotSet, Setting>>, <<NotSet, Set>>, <<Setting, Set>>,
     <<NotSet, Dead>>, <<Setting, Dead>>, <<Set, Dead>>}

\* A step in which drop runs to its end or to its panic.
DropStep == o_drop' # o_drop

\* C30: whatever the callers do, the drop of a dropped cell and calls on
\* a dropped cell included, the tag is a Lifecycle and changes only along
\* NotSet->Setting, NotSet->Set, Setting->Set and NotSet/Setting/Set->Dead;
\* the tag becomes Dead only in a drop, which keeps the pointer; once the
\* tag is Dead no step changes the cell or frees a box, and a drop that
\* finds it so panics; the pointer is non-null only when the tag is Set or
\* Dead.
C30_Lifecycle ==
    /\ [](Tag \in {NotSet, Setting, Set, Dead})
    /\ [](get_ptr(once_inner) # 0 => Tag \in {Set, Dead})
    /\ [][FlagPtr_get_flag(once_inner') # Tag =>
             <<Tag, FlagPtr_get_flag(once_inner')>> \in LifecycleMoves]_vars
    /\ [][FlagPtr_get_flag(once_inner') = Dead /\ Tag # Dead =>
             /\ DropStep
             /\ o_drop' = "ok"
             /\ get_ptr(once_inner') = get_ptr(once_inner)]_vars
    /\ [][Tag = Dead =>
             /\ once_inner' = once_inner
             /\ \A i \in DOMAIN o_box : o_box'[i] = o_box[i]
             /\ DropStep => o_drop' = "panic"]_vars
    /\ [][DropStep /\ Tag # Dead => FlagPtr_get_flag(once_inner') = Dead]_vars

\* The cell went NotSet, Setting, Set with a box, Dead; the box was freed
\* once, and a second drop found the tag Dead and panicked.
C30_Witness ==
    /\ Tag = Dead
    /\ get_ptr(once_inner) # 0
    /\ n_prepared = 1
    /\ o_drop = "panic"
    /\ o_box[get_ptr(once_inner) \div Align8].frees = 1

(***************************************************************************)
(* OnceLockFree::get                                                       *)
(***************************************************************************)
\* C31: get() is decided by the lifecycle its transformation ran on.  On
\* NotSet it commits NotSet->Set with a null pointer and returns
\* Err(AttemptToReadWhenUnset); on Setting it returns
\* Err(AttemptToSetConcurrently) and on Set the stored value, or
\* Err(AttemptToReadWhenUnset) when the pointer is null, both without a
\* store.  The cell it sealed stays sealed until the drop, and every set()
\* that reads it sealed fails with AlreadySet.
C31_GetSeals ==
    /\ [](\A t \in Threads :
            /\ OnceReturned(t, "get") =>
                  /\ Seen(t) \in {NotSet, Setting, Set}
                  /\ Seen(t) = NotSet =>
                        o_res[t] = Err("AttemptToReadWhenUnset") /\ o_cas[t] = "ok"
                  /\ Seen(t) = Setting =>
                        o_res[t] = Err("AttemptToSetConcurrently") /\ o_cas[t] # "ok"
                  /\ Seen(t) = Set =>
                        /\ o_cas[t] # "ok"
                        /\ o_res[t] = IF get_ptr(o_old[t]) = 0
                                      THEN Err("AttemptToReadWhenUnset")
                                      ELSE OkSome(get_ptr(o_old[t]))
                  /\ o_res[t].ok => n_installed = 1
            /\ OnceReturned(t, "set") /\ o_old[t] = Sealed =>
                  o_res[t] = Err("AlreadySet") /\ o_cas[t] # "ok")
    /\ [][\A t \in Threads :
            OnceReturns(t) /\ o_op[t] = "get" =>
                IF o_cas'[t] = "ok"
                THEN once_inner = NotSet /\ once_inner' = Sealed
                ELSE once_inner' = once_inner]_vars
    /\ [][\A t \in Threads :
            /\ OnceReturns(t) /\ o_op[t] = "get" /\ o_cas'[t] = "ok"
            => \A u \in Threads : o_pc[u] = "try" /\ o_op[u] = "set" /\ u # t =>
                   ~set_func(o_ptr[u], once_inner').commit]_vars
    /\ [][once_inner = Sealed /\ ~o_dropped' =>
            /\ once_inner' = Sealed
            /\ \A t \in Threads : o_pc'[t] = "try" /\ o_pc[t] # "try" =>
                   o_old'[t] = Sealed]_vars

\* A get() sealed the new cell and returned AttemptToReadWhenUnset; a set()
\* made afterwards failed with AlreadySet, and a second get() found the cell
\* sealed and returned AttemptToReadWhenUnset without a store.
C31_Witness ==
    \E t, u, w \in Threads :
        /\ OnceReturned(t, "get") /\ o_cas[t] = "ok"
        /\ o_res[t] = Err("AttemptToReadWhenUnset")
        /\ OnceReturned(u, "set") /\ o_old[u] = Sealed /\ o_tries[u] = 0
        /\ o_res[u] = Err("AlreadySet")
        /\ OnceReturned(w, "get") /\ o_old[w] = Sealed /\ o_cas[w] = "none"
        /\ o_res[w] = Err("AttemptToReadWhenUnset")

(***************************************************************************)
(* Progress of the transactions of Stack and WriteOrderingQueue            *)
(***************************************************************************)
\* A step of the loop of atomic_try_update in thread t's call on the stack,
\* and on the queue: the call ends, or its `old` is replaced.
StackTryStep(t) ==
    /\ s_pc[t] = "try"
    /\ s_pc'[t] # "try" \/ s_old'[t] # s_old[t]

QueueTryStep(t) ==
    /\ q_pc[t] = "try"
    /\ q_pc'[t] # "try" \/ q_old'[t] # q_old[t]

\* C32: an iteration of push, pop_all or consume_or_release_claim whose
\* loaded value is still the value of the atom commits and the call
\* returns; an iteration fails only when the atom has changed since the
\* load, changes nothing and leaves the call with the current value, so
\* that the call, or the one that interferes next, completes; every call
\* that has begun returns.
C32_LockFree ==
    /\ [][\A t \in StackThreads :
            StackTryStep(t) =>
                IF s_old[t] = stack_head
                THEN s_pc'[t] \in {"idle", "iter"}
                ELSE /\ s_pc'[t] = "try"
                     /\ stack_head' = stack_head
                     /\ s_old'[t] = stack_head]_vars
    /\ [][\A t \in QueueThreads :
            QueueTryStep(t) =>
                IF q_old[t] = queue_head
                THEN q_pc'[t] \in {"idle", "iter"}
                ELSE /\ q_pc'[t] = "try"
                     /\ queue_head' = queue_head
                     /\ q_old'[t] = queue_head]_vars
    /\ \A t \in StackThreads : (s_pc[t] = "try") ~> (s_pc[t] \in {"idle", "iter"})
    /\ \A t \in QueueThreads : (q_pc[t] = "try") ~> (q_pc[t] \in {"idle", "iter"})

(***************************************************************************)
(* NonceStack::pop                                                         *)
(***************************************************************************)
\* The nodes of the chain that starts at pointer p, head first.
RECURSIVE chain_nodes(_, _)
chain_nodes(m, p) ==
    IF p = Null THEN <<>> ELSE <<p>> \o chain_nodes(m, m[p].next)

\* An iteration of thread t's pop() runs on a head node that was freed.
PopReadsFreed(t) ==
    /\ ns_pc[t] = "try"
    /\ ns_op[t] = "pop"
    /\ ns_old[t].head # Null
    /\ ~mem[ns_old[t].head].alloc
    /\ ns_pc'[t] # "try" \/ ns_old'[t] # ns_old[t]

Low63(v) == <<v[1], v[2], v[3], v[4] % (LimbBase \div 2)>>

Low31(v) == <<v[1], v[2] % (LimbBase \div 2)>>

\* C34: after set_val(v), for every v and values of 2^63 (of 2^31) and more
\* included, get_val() is v mod 2^63 (v mod 2^31), whatever set_flag did
\* since; set_val leaves the flag bit exactly as it was.
C34_HighBitDropped ==
    /\ [](f_val # <<>> => get_val(flag_u64) = Low63(f_val[1]))
    /\ [](f_val32 # <<>> => FlagU32_get_val(flag_u32) = Low31(f_val32[1]))
    /\ [][f_val' # f_val => get_flag(flag_u64') = get_flag(flag_u64)]_vars
    /\ [][f_val32' # f_val32 =>
            FlagU32_get_flag(flag_u32') = FlagU32_get_flag(flag_u32)]_vars
    /\ [](f_flag # <<>> => get_flag(flag_u64) = f_flag[1])
    /\ [](f_flag32 # <<>> => FlagU32_get_flag(flag_u32) = f_flag32[1])
    /\ [](f_flag = <<>> => ~get_flag(flag_u64))
    /\ [](f_flag32 = <<>> => ~FlagU32_get_flag(flag_u32))

\* set_val(u64::MAX) on a FlagU64 whose flag was cleared left the value
\* 2^63 - 1 and the flag clear; set_val(2^31) on a FlagU32 whose flag was
\* set left the value 0 and the flag set.
C34_Witness ==
    /\ f_val = <<U64Max>>
    /\ f_flag = <<FALSE>>
    /\ flag_u64 = <<LimbBase - 2, LimbBase - 1, LimbBase - 1, LimbBase - 1>>
    /\ f_val32 = <<<<0, LimbBase \div 2>>>>
    /\ f_flag32 = <<TRUE>>
    /\ flag_u32 = <<1, 0>>

\* The threads whose committed transaction owes a message to the channel.
Senders == {t \in Threads : b_pc[t] = "send"}

\* C35: over the lifetime of a barrier at most one message is sent on its
\* channel, counting the one a committed cancel() or leader done() is about
\* to send: true from the one cancel() that succeeded, false from the one
\* leader; a successful cancel() and a leader never both occur, and no
\* receiver is handed a lagged message.
C35_OneMessage ==
    /\ Len(broadcast) + Cardinality(Senders) <= 1
    /\ \A i \in DOMAIN broadcast : broadcast[i] <=> get_flag(state)
    /\ \A t \in Senders :
          /\ b_op[t] = "cancel" <=> get_flag(state)
          /\ b_op[t] = "done" <=> b_res[t].leader
    /\ ~(get_flag(state) /\ n_leader >= 1)
    /\ n_leader >= 1 => Len(broadcast) + Cardinality(Senders) = 1
    /\ \A t \in Threads :
          /\ b_pc[t] = "recv" => Len(broadcast) - b_rx[t] <= ChannelCapacity
          /\ Returned(t, "wait") => b_res[t] # AlreadyShutdown

\* The cancel() sent true, a suspended wait() received it, and the done()
\* that took the count from 1 to 0 afterwards was not the leader.
C35_Witness ==
    \E t, u \in Threads :
        /\ t # u
        /\ broadcast = <<TRUE>>
        /\ Returned(t, "wait") /\ b_res[t].cancelled /\ ~get_flag(b_old[t])
        /\ Returned(u, "done") /\ b_res[u].cancelled
        /\ Committed(u) /\ get_val(b_old[u]) = U64One

\* The index in o_box of the box at address ptr.
BoxOf(ptr) == ptr \div Align8

\* Thread t's last call was a setter that returned an error.
SetterFailed(t) ==
    /\ o_op[t] \in OnceSetters
    /\ o_pc[t] = "ret"
    /\ ~o_res[t].ok

\* C36: every box made by set() or set_prepared() is accounted for: no box
\* is ever freed twice, the box of a setter that returned an error has been
\* released, and once the cell is dropped every box its setters made has
\* been freed exactly once.
C36_BoxesAccounted ==
    /\ \A i \in DOMAIN o_box : o_box[i].frees <= 1
    /\ \A t \in Threads : SetterFailed(t) => o_box[BoxOf(o_ptr[t])].frees = 1
    /\ o_dropped => \A i \in DOMAIN o_box : o_box[i].frees = 1

\* Thread t's last call returned a reference to a stored value.
ReturnedValue(t) == o_pc[t] = "ret" /\ o_res[t].ok /\ o_res[t].ptr # 0

\* C37: whatever the interleaving of setters and getters on one cell, at
\* most one setter call returns Ok and it is the one whose box the cell
\* holds; the pointer of a Set cell never changes; and every call that
\* returned a value, the getters included, returned the box of that one
\* setter, which stays allocated until the cell is dropped.
C37_OneValue ==
    /\ [](n_installed <= 1)
    /\ [][n_installed' # n_installed =>
            /\ n_installed = 0
            /\ Tag # Set
            /\ \E t \in Threads :
                  /\ OnceReturns(t) /\ o_op[t] \in OnceSetters
                  /\ once_inner' = Installed(o_ptr[t])]_vars
    /\ [][Tag = Set => get_ptr(once_inner') = get_ptr(once_inner)]_vars
    /\ [](\A t \in Threads :
            ReturnedValue(t) =>
                /\ n_installed = 1
                /\ o_res[t].ptr = get_ptr(once_inner)
                /\ o_box[BoxOf(o_res[t].ptr)].val \in OnceValues
                /\ ~o_dropped =>
                      /\ Tag = Set
                      /\ o_box[BoxOf(o_res[t].ptr)].frees = 0)

\* A set() installed its value while a get_or_seal() was trying to seal the
\* cell: the seal lost the compare_exchange and the call returned the value
\* of the set(), as did a get_poll().
C37_Witness ==
    \E t, u, w \in Threads :
        /\ n_installed = 1
        /\ ~o_dropped
        /\ OnceReturned(w, "set") /\ ReturnedValue(w)
        /\ OnceReturned(t, "get_or_seal") /\ ReturnedValue(t) /\ o_tries[t] >= 1
        /\ OnceReturned(u, "get_poll") /\ ReturnedValue(u)
        /\ o_res[t] = o_res[w] /\ o_res[u] = o_res[w]
        /\ o_box[BoxOf(o_res[w].ptr)].val = 2

====
